---- MODULE Spec2Model ----
(***************************************************************************)
(* A model of the OSRS hiscores toolkit: the experience table loader       *)
(* (src/src/osrs_data.py, src/player_stats.py), the level/XP converters    *)
(* the combat-level calculator, the experience totals and the maxed        *)
(* checks, in their two implementations                                    *)
(* (src/src/core_player_calculators.py and src/player_stats.py), the       *)
(* accessors of a player record (src/hiscores_parser.py,                   *)
(* src/src/player_stats_getters.py), the hiscores client                   *)
(* (src/osrs_hiscores_api.py) and the logging setup (src/logger_setup.py). *)
(*                                                                         *)
(* Conventions.                                                            *)
(*  - Python lists are 0-indexed, TLA+ sequences 1-indexed: the Python     *)
(*    expression xp_table[level - 1] is xp_table[level] here, and          *)
(*    xp_table[current_level] is xp_table[current_level + 1].              *)
(*  - The outcome of a call is a record: Ret(v) for a returned integer,    *)
(*    NoneRet for a returned None, Raise(e) for an exception e that        *)
(*    leaves the function.                                                 *)
(*  - A module-level cache `_xp_table` is a record [loaded, type, table]; *)
(*    loaded = FALSE is Python's None, type is the Python type of the      *)
(*    value held and table the items of a list.                            *)
(*  - The specifications share the variables: Spec (the converters),      *)
(*    SpecLoader (the table loaders, with the file changing under them),   *)
(*    SpecCombat (the combat level), SpecTotals (the experience totals),   *)
(*    SpecMaxed and SpecTotalLevel (the maxed checks), SpecAccess (the     *)
(*    accessors), SpecFetch (the hiscores client), SpecLogger (the root    *)
(*    logger's handlers) and SpecRace (concurrent callers of the loader,   *)
(*    one step per test, read, assignment and return).                     *)
(***************************************************************************)
EXTENDS Integers, Sequences, FiniteSets, TLC

\* ---- bounds of the model ------------------------------------------------
MaxLen == 3
MaxVal == 3

\* ---- program constants --------------------------------------------------
MAX_TOTAL_LEVEL == 2376
MAX_SKILL_LEVEL == 99
MAX_XP == 200000000
MAX_VIRTUAL_LEVEL == 126

COMBAT_SKILLS ==
    <<"Attack", "Strength", "Defence", "Hitpoints", "Ranged", "Prayer", "Magic">>

NON_COMBAT_SKILLS ==
    <<"Farming", "Fishing", "Hunter", "Mining", "Woodcutting", "Cooking",
      "Crafting", "Fletching", "Herblore", "Runecraft", "Smithing", "Agility",
      "Construction", "Firemaking", "Slayer", "Thieving", "Sailing">>

GATHERING_SKILLS == <<"Farming", "Fishing", "Hunter", "Mining", "Woodcutting">>

PRODUCTION_SKILLS ==
    <<"Cooking", "Crafting", "Fletching", "Herblore", "Runecraft", "Smithing">>

UTILITY_SKILLS ==
    <<"Agility", "Construction", "Firemaking", "Slayer", "Thieving", "Sailing">>

VARIABLES
    resource,               \* the content of data/xp_table.json
    osrs_data_xp_table,     \* osrs_data._xp_table
    player_stats_xp_table,  \* player_stats._xp_table
    levels,                 \* the mapping handed to the core calculate_combat_level
    player_data,            \* the player record handed to player_stats
    call,                   \* the last call made: function, module, arguments
    ret,                    \* its outcome
    opens,                  \* per module, how often it opened data/xp_table.json
    handlers,               \* logging.getLogger().handlers
    log_files,              \* per stream or file, the records written to it
    setups,                 \* how many times setup_logger was called
    threads                 \* per concurrent caller of get_xp_table, its position

vars ==
    <<resource, osrs_data_xp_table, player_stats_xp_table, levels, player_data,
      call, ret, opens, handlers, log_files, setups, threads>>

\* The Python dict {}.
EmptyDict == [k \in {} |-> 0]

\* ---- outcomes -----------------------------------------------------------
Ret(v) == [kind |-> "value", val |-> v, exc |-> ""]
NoneRet == [kind |-> "None", val |-> 0, exc |-> ""]
Raise(e) == [kind |-> "raise", val |-> 0, exc |-> e]

\* ---- the table resource and its loader ----------------------------------
\* Every JSON array of at most MaxLen integers in 0..MaxVal listed in
\* non-decreasing order: the strictly increasing tables, and those that repeat
\* a threshold or do not start at 0.
SmallTables ==
    {t \in UNION {[1..n -> 0..MaxVal] : n \in 0..MaxLen} :
        \A i \in 1..(Len(t) - 1) : t[i] <= t[i + 1]}

\* Strictly increasing tables around the reference length of 126 entries.
LongTables ==
    {[i \in 1..n |-> 2 * (i - 1)] :
        n \in (MAX_VIRTUAL_LEVEL - 1)..(MAX_VIRTUAL_LEVEL + 1)}

Tables == SmallTables \cup LongTables

\* The content of data/xp_table.json, by what open() and json.load make of it:
\*   "missing"       open raises FileNotFoundError
\*   "undecodable"   json.load raises json.JSONDecodeError
\*   "bad_encoding"  the bytes are not UTF-8: json.load's f.read() raises
\*                   UnicodeDecodeError
\*   "array"         a JSON array of integers: json.load returns the list
\*   "object"        well-formed JSON that is no array, here {"levels": [..]}:
\*                   json.load returns a dict
Resources ==
    {[kind |-> "missing", content |-> <<>>],
     [kind |-> "undecodable", content |-> <<>>]}
    \cup {[kind |-> "array", content |-> t] : t \in Tables}

\* _xp_table: None, or the value json.load returned / the except branch set.
\* A list's items are in `table`; a dict's keys and values are not modelled.
NoCache == [loaded |-> FALSE, type |-> "None", table |-> <<>>]

EmptyList == [loaded |-> TRUE, type |-> "list", table |-> <<>>]

\* get_xp_table without the `if _xp_table is None` test: every call loads
get_xp_table_reloads(cache, res) ==
    IF res.kind = "array"
    THEN [loaded |-> TRUE, type |-> "list", table |-> res.content]
    ELSE IF res.kind = "object"
    THEN [loaded |-> TRUE, type |-> "dict", table |-> <<>>]
    ELSE IF res.kind = "missing" THEN EmptyList
    ELSE IF res.kind = "undecodable" THEN EmptyList
    ELSE cache

\* get_xp_table: _xp_table after the call. An exception other than the two
\* it catches leaves _xp_table at None.
get_xp_table(cache, res) ==
    IF ~cache.loaded
    THEN IF res.kind = "array"
         THEN [loaded |-> TRUE, type |-> "list", table |-> res.content]
         ELSE IF res.kind = "object"
         THEN [loaded |-> TRUE, type |-> "dict", table |-> <<>>]
         ELSE IF res.kind = "missing" THEN EmptyList
         ELSE IF res.kind = "undecodable" THEN EmptyList
         ELSE cache
    ELSE cache

\* `if _xp_table is None:` the call opens the file
get_xp_table_opens(cache) == ~cache.loaded

\* the Python value a cache holds
PyValue(cache) == [type |-> cache.type, items |-> cache.table]

\* get_xp_table: the call's outcome
get_xp_table_result(cache, res) ==
    IF ~cache.loaded /\ res.kind = "bad_encoding"
    THEN Raise("UnicodeDecodeError")
    ELSE Ret(PyValue(get_xp_table(cache, res)))

\* player_stats._load_xp_table, the same three
load_xp_table(cache, res) ==
    IF ~cache.loaded
    THEN IF res.kind = "array"
         THEN [loaded |-> TRUE, type |-> "list", table |-> res.content]
         ELSE IF res.kind = "object"
         THEN [loaded |-> TRUE, type |-> "dict", table |-> <<>>]
         ELSE IF res.kind = "missing" THEN EmptyList
         ELSE IF res.kind = "undecodable" THEN EmptyList
         ELSE cache
    ELSE cache

load_xp_table_opens(cache) == ~cache.loaded

load_xp_table_result(cache, res) ==
    IF ~cache.loaded /\ res.kind = "bad_encoding"
    THEN Raise("UnicodeDecodeError")
    ELSE Ret(PyValue(load_xp_table(cache, res)))

\* the open() counters
NoOpens == [core |-> 0, player_stats |-> 0]

opened(module, did_open) ==
    IF did_open THEN [opens EXCEPT ![module] = @ + 1] ELSE opens

\* ---- Python list subscript ---------------------------------------------
\* lst[i] with a 0-based index: negative indices count from the end, an
\* index outside the list raises IndexError.
PyIndex(lst, i) ==
    IF 0 <= i /\ i < Len(lst) THEN Ret(lst[i + 1])
    ELSE IF i < 0 /\ -Len(lst) <= i THEN Ret(lst[Len(lst) + i + 1])
    ELSE Raise("IndexError")

\* ---- level/XP converters, src/src/core_player_calculators.py ------------
\* The loop
\*     for level in range(len(xp_table), 0, -1):
\*         if xp >= xp_table[level - 1]: return level
\* restricted to the levels hi, hi-1, .., lo: the level it returns, or 0 when
\* it ends without returning. The range is walked in the loop's order, upper
\* half before lower half, which keeps the evaluation depth logarithmic.
RECURSIVE scan_levels(_, _, _, _)
scan_levels(xp_table, lo, hi, xp) ==
    IF lo > hi THEN 0
    ELSE IF lo = hi THEN (IF xp >= xp_table[hi] THEN hi ELSE 0)
    ELSE LET mid == (lo + hi) \div 2
             upper == scan_levels(xp_table, mid + 1, hi, xp)
         IN  IF upper # 0 THEN upper
             ELSE scan_levels(xp_table, lo, mid, xp)

\* get_level_for_xp returning the matching list index instead of the level
get_level_for_xp_returns_index(xp_table, xp) ==
    IF xp_table = <<>> THEN 1
    ELSE LET level == scan_levels(xp_table, 1, Len(xp_table), xp)
         IN  IF level # 0 THEN level - 1 ELSE 1

get_level_for_xp(xp_table, xp) ==
    IF xp_table = <<>> THEN 1
    ELSE LET level == scan_levels(xp_table, 1, Len(xp_table), xp)
         IN  IF level # 0 THEN level ELSE 1

\* get_xp_for_level without the `if not xp_table` guard
get_xp_for_level_unguarded(xp_table, level) ==
    IF ~(1 <= level /\ level <= MAX_VIRTUAL_LEVEL) THEN NoneRet
    ELSE PyIndex(xp_table, level - 1)

get_xp_for_level(xp_table, level) ==
    IF xp_table = <<>> THEN NoneRet
    ELSE IF ~(1 <= level /\ level <= MAX_VIRTUAL_LEVEL) THEN NoneRet
    ELSE PyIndex(xp_table, level - 1)

calculate_xp_difference(start_xp, target_xp) == target_xp - start_xp

get_xp_for_next_level(xp_table, current_xp) ==
    LET current_level == get_level_for_xp(xp_table, current_xp)
        xp_for_next_level == get_xp_for_level(xp_table, current_level + 1)
    IN  IF current_level >= MAX_VIRTUAL_LEVEL THEN NoneRet
        ELSE IF xp_for_next_level.kind = "raise" THEN xp_for_next_level
        ELSE IF xp_for_next_level.kind = "None" THEN NoneRet
        ELSE Ret(calculate_xp_difference(current_xp, xp_for_next_level.val))

\* get_level_for_xp applied to the outcome of get_xp_for_level(level): an
\* exception of the inner call propagates; a None argument reaches the
\* comparison `xp >= xp_for_level`, which raises TypeError.
level_for_xp_of_level(xp_table, level) ==
    LET xp == get_xp_for_level(xp_table, level)
    IN  IF xp.kind = "raise" THEN xp
        ELSE IF xp.kind = "None"
             THEN IF xp_table = <<>> THEN Ret(1) ELSE Raise("TypeError")
        ELSE Ret(get_level_for_xp(xp_table, xp.val))

\* ---- level/XP converters, src/player_stats.py ---------------------------
RECURSIVE ps_scan_levels(_, _, _, _)
ps_scan_levels(xp_table, lo, hi, xp) ==
    IF lo > hi THEN 0
    ELSE IF lo = hi THEN (IF xp >= xp_table[hi] THEN hi ELSE 0)
    ELSE LET mid == (lo + hi) \div 2
             upper == ps_scan_levels(xp_table, mid + 1, hi, xp)
         IN  IF upper # 0 THEN upper
             ELSE ps_scan_levels(xp_table, lo, mid, xp)

ps_get_level_for_xp(xp_table, xp) ==
    IF xp_table = <<>> THEN 1
    ELSE LET level == ps_scan_levels(xp_table, 1, Len(xp_table), xp)
         IN  IF level # 0 THEN level ELSE 1

\* get_xp_for_next_level reading the threshold of the current level,
\* xp_table[current_level - 1], in place of the next one
ps_get_xp_for_next_level_off_by_one(xp_table, current_xp) ==
    IF xp_table = <<>> THEN NoneRet
    ELSE LET current_level == ps_get_level_for_xp(xp_table, current_xp)
             max_level == Len(xp_table)
             xp_for_next_level == PyIndex(xp_table, current_level - 1)
         IN  IF current_level >= max_level THEN NoneRet
             ELSE IF xp_for_next_level.kind = "raise" THEN xp_for_next_level
             ELSE Ret(xp_for_next_level.val - current_xp)

ps_get_xp_for_next_level(xp_table, current_xp) ==
    IF xp_table = <<>> THEN NoneRet
    ELSE LET current_level == ps_get_level_for_xp(xp_table, current_xp)
             max_level == Len(xp_table)
             xp_for_next_level == PyIndex(xp_table, current_level)
         IN  IF current_level >= max_level THEN NoneRet
             ELSE IF xp_for_next_level.kind = "raise" THEN xp_for_next_level
             ELSE Ret(xp_for_next_level.val - current_xp)

\* get_xp_to_level without the `current_xp >= xp_for_target` branch
get_xp_to_level_unclamped(xp_table, current_xp, target_level) ==
    IF xp_table = <<>> THEN NoneRet
    ELSE IF ~(1 < target_level /\ target_level <= Len(xp_table)) THEN NoneRet
    ELSE LET xp_for_target == PyIndex(xp_table, target_level - 1)
         IN  IF xp_for_target.kind = "raise" THEN xp_for_target
             ELSE Ret(xp_for_target.val - current_xp)

\* get_xp_to_level answering 0 only when current_xp equals the threshold,
\* and the distance to it on either side otherwise
get_xp_to_level_distance(xp_table, current_xp, target_level) ==
    IF xp_table = <<>> THEN NoneRet
    ELSE IF ~(1 < target_level /\ target_level <= Len(xp_table)) THEN NoneRet
    ELSE LET xp_for_target == PyIndex(xp_table, target_level - 1)
         IN  IF xp_for_target.kind = "raise" THEN xp_for_target
             ELSE IF current_xp >= xp_for_target.val
                  THEN Ret(current_xp - xp_for_target.val)
             ELSE Ret(xp_for_target.val - current_xp)

get_xp_to_level(xp_table, current_xp, target_level) ==
    IF xp_table = <<>> THEN NoneRet
    ELSE IF ~(1 < target_level /\ target_level <= Len(xp_table)) THEN NoneRet
    ELSE LET xp_for_target == PyIndex(xp_table, target_level - 1)
         IN  IF xp_for_target.kind = "raise" THEN xp_for_target
             ELSE IF current_xp >= xp_for_target.val THEN Ret(0)
             ELSE Ret(xp_for_target.val - current_xp)

\* ---- inputs -------------------------------------------------------------
ResourceTable == IF resource.kind = "array" THEN resource.content ELSE <<>>

\* xp arguments: the small values, and the values around the last two
\* thresholds of the table in the resource
XpInputs ==
    (-1..(MaxVal + 1))
    \cup {ResourceTable[i] + d :
            i \in {j \in DOMAIN ResourceTable : j >= Len(ResourceTable) - 1},
            d \in {-1, 0, 1}}

\* level arguments: the small values, and the values around MAX_VIRTUAL_LEVEL
LevelInputs ==
    (0..(MaxLen + 1)) \cup (MAX_VIRTUAL_LEVEL..(MAX_VIRTUAL_LEVEL + 2))

Call(fn, module, xp, level) ==
    [fn |-> fn, module |-> module, xp |-> xp, level |-> level]

NoCall == Call("", "", 0, 0)

\* ---- the state machine of the converters --------------------------------
Init ==
    /\ resource \in Resources
    /\ osrs_data_xp_table = NoCache
    /\ player_stats_xp_table = NoCache
    /\ levels = EmptyDict
    /\ player_data = EmptyDict
    /\ call = NoCall
    /\ ret = NoneRet
    /\ opens = NoOpens
    /\ handlers = <<>>
    /\ log_files = <<>>
    /\ setups = 0
    /\ threads = <<>>

GetLevelForXp ==
    \E xp \in XpInputs :
        LET cache == get_xp_table(osrs_data_xp_table, resource)
        IN  /\ osrs_data_xp_table' = cache
            /\ opens' = opened("core", get_xp_table_opens(osrs_data_xp_table))
            /\ call' = Call("get_level_for_xp", "core", xp, 0)
            /\ ret' = Ret(get_level_for_xp(cache.table, xp))
            /\ UNCHANGED <<handlers, log_files, setups, threads,
                           resource, player_stats_xp_table, levels, player_data>>

GetXpForLevel ==
    \E level \in LevelInputs :
        LET cache == get_xp_table(osrs_data_xp_table, resource)
        IN  /\ osrs_data_xp_table' = cache
            /\ opens' = opened("core", get_xp_table_opens(osrs_data_xp_table))
            /\ call' = Call("get_xp_for_level", "core", 0, level)
            /\ ret' = get_xp_for_level(cache.table, level)
            /\ UNCHANGED <<handlers, log_files, setups, threads,
                           resource, player_stats_xp_table, levels, player_data>>

GetXpForNextLevel ==
    \E xp \in XpInputs :
        LET cache == get_xp_table(osrs_data_xp_table, resource)
        IN  /\ osrs_data_xp_table' = cache
            /\ opens' = opened("core", get_xp_table_opens(osrs_data_xp_table))
            /\ call' = Call("get_xp_for_next_level", "core", xp, 0)
            /\ ret' = get_xp_for_next_level(cache.table, xp)
            /\ UNCHANGED <<handlers, log_files, setups, threads,
                           resource, player_stats_xp_table, levels, player_data>>

LevelForXpOfLevel ==
    \E level \in LevelInputs :
        LET cache == get_xp_table(osrs_data_xp_table, resource)
        IN  /\ osrs_data_xp_table' = cache
            /\ opens' = opened("core", get_xp_table_opens(osrs_data_xp_table))
            /\ call' = Call("level_for_xp_of_level", "core", 0, level)
            /\ ret' = level_for_xp_of_level(cache.table, level)
            /\ UNCHANGED <<handlers, log_files, setups, threads,
                           resource, player_stats_xp_table, levels, player_data>>

PsGetLevelForXp ==
    \E xp \in XpInputs :
        LET cache == load_xp_table(player_stats_xp_table, resource)
        IN  /\ player_stats_xp_table' = cache
            /\ opens' = opened("player_stats",
                              load_xp_table_opens(player_stats_xp_table))
            /\ call' = Call("get_level_for_xp", "player_stats", xp, 0)
            /\ ret' = Ret(ps_get_level_for_xp(cache.table, xp))
            /\ UNCHANGED <<handlers, log_files, setups, threads,
                           resource, osrs_data_xp_table, levels, player_data>>

PsGetXpForNextLevel ==
    \E xp \in XpInputs :
        LET cache == load_xp_table(player_stats_xp_table, resource)
        IN  /\ player_stats_xp_table' = cache
            /\ opens' = opened("player_stats",
                              load_xp_table_opens(player_stats_xp_table))
            /\ call' = Call("get_xp_for_next_level", "player_stats", xp, 0)
            /\ ret' = ps_get_xp_for_next_level(cache.table, xp)
            /\ UNCHANGED <<handlers, log_files, setups, threads,
                           resource, osrs_data_xp_table, levels, player_data>>

GetXpToLevel ==
    \E xp \in XpInputs, level \in LevelInputs :
        LET cache == load_xp_table(player_stats_xp_table, resource)
        IN  /\ player_stats_xp_table' = cache
            /\ opens' = opened("player_stats",
                              load_xp_table_opens(player_stats_xp_table))
            /\ call' = Call("get_xp_to_level", "player_stats", xp, level)
            /\ ret' = get_xp_to_level(cache.table, xp, level)
            /\ UNCHANGED <<handlers, log_files, setups, threads,
                           resource, osrs_data_xp_table, levels, player_data>>

Next ==
    \/ GetLevelForXp
    \/ GetXpForLevel
    \/ GetXpForNextLevel
    \/ LevelForXpOfLevel
    \/ PsGetLevelForXp
    \/ PsGetXpForNextLevel
    \/ GetXpToLevel

Spec == Init /\ [][Next]_vars

\* ---- the state machine of the table loaders ------------------------------
\* The two loaders are called directly, and between calls the file may be
\* created, removed or rewritten.
MaxCalls == 3

LoaderTables == {<<>>, <<0, 1>>, <<0, 2>>}

LoaderResources ==
    {[kind |-> "missing", content |-> <<>>],
     [kind |-> "undecodable", content |-> <<>>],
     [kind |-> "bad_encoding", content |-> <<>>],
     [kind |-> "object", content |-> <<>>]}
    \cup {[kind |-> "array", content |-> t] : t \in LoaderTables}

\* the n-th loader call: the function, what the file held when it was made,
\* and whether the module's _xp_table was still None
LoaderCall(fn, module, res, first, n) ==
    [fn |-> fn, module |-> module, resource |-> res, first |-> first, n |-> n]

InitLoader ==
    /\ resource \in LoaderResources
    /\ osrs_data_xp_table = NoCache
    /\ player_stats_xp_table = NoCache
    /\ levels = EmptyDict
    /\ player_data = EmptyDict
    /\ call = LoaderCall("", "", resource, FALSE, 0)
    /\ ret = NoneRet
    /\ opens = NoOpens
    /\ handlers = <<>>
    /\ log_files = <<>>
    /\ setups = 0
    /\ threads = <<>>

GetXpTable ==
    /\ call.n < MaxCalls
    /\ osrs_data_xp_table' = get_xp_table(osrs_data_xp_table, resource)
    /\ opens' = opened("core", get_xp_table_opens(osrs_data_xp_table))
    /\ call' = LoaderCall("get_xp_table", "core", resource,
                          ~osrs_data_xp_table.loaded, call.n + 1)
    /\ ret' = get_xp_table_result(osrs_data_xp_table, resource)
    /\ UNCHANGED <<handlers, log_files, setups, threads,
                   resource, player_stats_xp_table, levels, player_data>>

LoadXpTable ==
    /\ call.n < MaxCalls
    /\ player_stats_xp_table' = load_xp_table(player_stats_xp_table, resource)
    /\ opens' = opened("player_stats",
                       load_xp_table_opens(player_stats_xp_table))
    /\ call' = LoaderCall("_load_xp_table", "player_stats", resource,
                          ~player_stats_xp_table.loaded, call.n + 1)
    /\ ret' = load_xp_table_result(player_stats_xp_table, resource)
    /\ UNCHANGED <<handlers, log_files, setups, threads,
                   resource, osrs_data_xp_table, levels, player_data>>

\* the environment: the file is created, removed or rewritten
ResourceChanges ==
    /\ resource' \in LoaderResources \ {resource}
    /\ UNCHANGED <<handlers, log_files, setups, threads,
                   osrs_data_xp_table, player_stats_xp_table, levels,
                   player_data, call, ret, opens>>

NextLoader ==
    \/ GetXpTable
    \/ LoadXpTable
    \/ ResourceChanges

SpecLoader == InitLoader /\ [][NextLoader]_vars

\* ---- player record accessors --------------------------------------------
\* hiscores_parser._find_item_by_name: the first item whose 'name' equals
\* item_name, as a one-element sequence; <<>> is None.
\* _find_item_by_name returning the last item of that name
RECURSIVE find_item_by_name_last(_, _)
find_item_by_name_last(items_list, item_name) ==
    IF items_list = <<>> THEN <<>>
    ELSE LET item == Head(items_list)
             later == find_item_by_name_last(Tail(items_list), item_name)
         IN  IF later # <<>> THEN later
             ELSE IF "name" \in DOMAIN item /\ item.name = item_name
             THEN <<item>>
             ELSE <<>>

RECURSIVE find_item_by_name(_, _)
find_item_by_name(items_list, item_name) ==
    IF items_list = <<>> THEN <<>>
    ELSE LET item == Head(items_list)
         IN  IF "name" \in DOMAIN item /\ item.name = item_name
             THEN <<item>>
             ELSE find_item_by_name(Tail(items_list), item_name)

\* hiscores_parser.get_skill_data: player_data.get('skills', [])
get_skill_data(pd, skill_name) ==
    LET skills == IF "skills" \in DOMAIN pd THEN pd.skills ELSE <<>>
    IN  find_item_by_name(skills, skill_name)

\* get_skill_level answering level 1 for a skill it does not find
get_skill_level_default_1(pd, skill_name) ==
    LET skill_data == get_skill_data(pd, skill_name)
    IN  IF /\ skill_data # <<>>
           /\ DOMAIN skill_data[1] # {}
           /\ "level" \in DOMAIN skill_data[1]
        THEN Ret(skill_data[1].level)
        ELSE Ret(1)

\* player_stats.get_skill_level
get_skill_level(pd, skill_name) ==
    LET skill_data == get_skill_data(pd, skill_name)
    IN  IF /\ skill_data # <<>>
           /\ DOMAIN skill_data[1] # {}
           /\ "level" \in DOMAIN skill_data[1]
        THEN Ret(skill_data[1].level)
        ELSE NoneRet

\* ---- combat level -------------------------------------------------------
\* The combat level is held exactly, as a number of fortieths:
\* 0.25 = 10/40 and 0.325 = 13/40, so Ret(v) of calculate_combat_level stands
\* for the real number v / 40. prayer * 0.5 and ranged * 1.5 are exact in
\* binary floating point, so math.floor of them is floor(n / 2), floor(3n / 2).
floor_times_half(n) == n \div 2
floor_times_one_and_half(n) == (3 * n) \div 2

\* Python's max of three numbers
max3(a, b, c) ==
    LET ab == IF b > a THEN b ELSE a
    IN  IF c > ab THEN c ELSE ab

\* the formula with the final sum floored to a whole level
combat_level_formula_floored(attack, strength, defence, hitpoints, ranged, prayer, magic) ==
    LET base == 10 * (defence + hitpoints + floor_times_half(prayer))
        melee_contribution == 13 * (attack + strength)
        range_contribution == 13 * floor_times_one_and_half(ranged)
        magic_contribution == 13 * floor_times_one_and_half(magic)
        max_attack_contribution ==
            max3(melee_contribution, range_contribution, magic_contribution)
    IN  40 * ((base + max_attack_contribution) \div 40)

\* lines 192-201 of core_player_calculators.py, 209-218 of player_stats.py
combat_level_formula(attack, strength, defence, hitpoints, ranged, prayer, magic) ==
    LET base == 10 * (defence + hitpoints + floor_times_half(prayer))
        melee_contribution == 13 * (attack + strength)
        range_contribution == 13 * floor_times_one_and_half(ranged)
        magic_contribution == 13 * floor_times_one_and_half(magic)
        max_attack_contribution ==
            max3(melee_contribution, range_contribution, magic_contribution)
    IN  base + max_attack_contribution

\* core_player_calculators.calculate_combat_level: levels["Attack"], ... raise
\* KeyError on the first key that is absent.
calculate_combat_level(lv) ==
    IF \E i \in DOMAIN COMBAT_SKILLS : COMBAT_SKILLS[i] \notin DOMAIN lv
    THEN Raise("KeyError")
    ELSE Ret(combat_level_formula(lv["Attack"], lv["Strength"], lv["Defence"],
                                  lv["Hitpoints"], lv["Ranged"], lv["Prayer"],
                                  lv["Magic"]))

\* player_stats.calculate_combat_level: None on the first required skill whose
\* level is not found.
ps_calculate_combat_level(pd) ==
    LET level(skill) == get_skill_level(pd, skill)
    IN  IF \E i \in DOMAIN COMBAT_SKILLS : level(COMBAT_SKILLS[i]).kind = "None"
        THEN NoneRet
        ELSE Ret(combat_level_formula(
                    level("Attack").val, level("Strength").val,
                    level("Defence").val, level("Hitpoints").val,
                    level("Ranged").val, level("Prayer").val,
                    level("Magic").val))

\* ---- the combat-level calls ---------------------------------------------
CombatSkillNames == {COMBAT_SKILLS[i] : i \in DOMAIN COMBAT_SKILLS}

\* the levels a skill is given: the lowest two, a middle one, the cap
LevelSamples == {1, 2, 75, MAX_SKILL_LEVEL}

\* every mapping from some of the combat skills to a level
LevelMappings == UNION {[present -> LevelSamples] : present \in SUBSET CombatSkillNames}

\* the 'skills' list of a record: the "Overall" entry, then the entries of
\* the skills lv holds, in hiscores order
RECURSIVE SkillEntries(_, _)
SkillEntries(lv, i) ==
    IF i > Len(COMBAT_SKILLS) THEN <<>>
    ELSE (IF COMBAT_SKILLS[i] \in DOMAIN lv
          THEN <<[name |-> COMBAT_SKILLS[i], level |-> lv[COMBAT_SKILLS[i]]]>>
          ELSE <<>>)
         \o SkillEntries(lv, i + 1)

OverallEntry == [name |-> "Overall", level |-> MAX_TOTAL_LEVEL]

\* the records that hold exactly the levels of lv; the record without a
\* 'skills' key holds none
PlayerRecords(lv) ==
    {[skills |-> <<OverallEntry>> \o SkillEntries(lv, 1)]}
    \cup (IF lv = EmptyDict THEN {EmptyDict, [skills |-> <<>>]} ELSE {})

CombatCall(module) == [fn |-> "calculate_combat_level", module |-> module]

InitCombat ==
    /\ resource = [kind |-> "missing", content |-> <<>>]
    /\ osrs_data_xp_table = NoCache
    /\ player_stats_xp_table = NoCache
    /\ levels \in LevelMappings
    /\ player_data \in PlayerRecords(levels)
    /\ call = NoCall
    /\ ret = NoneRet
    /\ opens = NoOpens
    /\ handlers = <<>>
    /\ log_files = <<>>
    /\ setups = 0
    /\ threads = <<>>

CalculateCombatLevel ==
    /\ call' = CombatCall("core")
    /\ ret' = calculate_combat_level(levels)
    /\ UNCHANGED <<handlers, log_files, setups, threads,
                   resource, osrs_data_xp_table, player_stats_xp_table, opens,
                   levels, player_data>>

PsCalculateCombatLevel ==
    /\ call' = CombatCall("player_stats")
    /\ ret' = ps_calculate_combat_level(player_data)
    /\ UNCHANGED <<handlers, log_files, setups, threads,
                   resource, osrs_data_xp_table, player_stats_xp_table, opens,
                   levels, player_data>>

NextCombat ==
    \/ CalculateCombatLevel
    \/ PsCalculateCombatLevel

SpecCombat == InitCombat /\ [][NextCombat]_vars

\* ---- experience totals ---------------------------------------------------
\* get_skill_xp testing the value, `if skill_data and skill_data.get('xp')`,
\* in place of the key
get_skill_xp_truthy(pd, skill_name) ==
    LET skill_data == get_skill_data(pd, skill_name)
    IN  IF /\ skill_data # <<>>
           /\ "xp" \in DOMAIN skill_data[1]
           /\ skill_data[1].xp # 0
        THEN Ret(skill_data[1].xp)
        ELSE NoneRet

\* player_stats.get_skill_xp. int() of the record's integer xp is that integer.
get_skill_xp(pd, skill_name) ==
    LET skill_data == get_skill_data(pd, skill_name)
    IN  IF /\ skill_data # <<>>
           /\ DOMAIN skill_data[1] # {}
           /\ "xp" \in DOMAIN skill_data[1]
        THEN Ret(skill_data[1].xp)
        ELSE NoneRet

\* player_stats.COMBAT_SKILLS and the lists local to the total functions
PS_COMBAT_SKILLS ==
    <<"Attack", "Strength", "Defence", "Hitpoints", "Ranged", "Prayer", "Magic">>

non_combat_skills ==
    <<"Farming", "Fishing", "Hunter", "Mining", "Woodcutting", "Cooking",
      "Crafting", "Fletching", "Herblore", "Runecraft", "Smithing", "Agility",
      "Construction", "Firemaking", "Slayer", "Thieving", "Sailing">>

gathering_skills == <<"Farming", "Fishing", "Hunter", "Mining", "Woodcutting">>

\* the production list with a gathering skill listed in it as well
production_skills_with_farming ==
    <<"Cooking", "Crafting", "Fletching", "Herblore", "Runecraft", "Smithing",
      "Farming">>

production_skills ==
    <<"Cooking", "Crafting", "Fletching", "Herblore", "Runecraft", "Smithing">>

utility_skills ==
    <<"Agility", "Construction", "Firemaking", "Slayer", "Thieving", "Sailing">>

\* the loop with `if xp is None` alone: a negative xp is added
RECURSIVE sum_category_xp_adds_negative(_, _)
sum_category_xp_adds_negative(pd, skills) ==
    IF skills = <<>> THEN 0
    ELSE LET xp == get_skill_xp(pd, Head(skills))
             xp_to_add == IF xp = NoneRet THEN 0 ELSE xp.val
         IN  xp_to_add + sum_category_xp_adds_negative(pd, Tail(skills))

\* The loop every total function runs over its skills:
\*     xp = get_skill_xp(player_data, skill)
\*     if xp is None or xp < 0: xp_to_add = 0
\*     else: xp_to_add = xp
\*     total += xp_to_add
RECURSIVE sum_category_xp(_, _)
sum_category_xp(pd, skills) ==
    IF skills = <<>> THEN 0
    ELSE LET xp == get_skill_xp(pd, Head(skills))
             xp_to_add == IF xp = NoneRet \/ xp.val < 0 THEN 0 ELSE xp.val
         IN  xp_to_add + sum_category_xp(pd, Tail(skills))

calculate_total_combat_xp(pd) == Ret(sum_category_xp(pd, PS_COMBAT_SKILLS))

calculate_total_non_combat_xp(pd) == Ret(sum_category_xp(pd, non_combat_skills))

calculate_total_gathering_xp(pd) == Ret(sum_category_xp(pd, gathering_skills))

calculate_total_production_xp(pd) == Ret(sum_category_xp(pd, production_skills))

calculate_total_utility_xp(pd) == Ret(sum_category_xp(pd, utility_skills))

\* sum(...) over the xp values that are not None: a negative one is added
RECURSIVE sum_xp_not_none(_)
sum_xp_not_none(xp_values) ==
    IF xp_values = <<>> THEN 0
    ELSE LET xp == Head(xp_values)
         IN  (IF xp # NoneRet THEN xp.val ELSE 0)
             + sum_xp_not_none(Tail(xp_values))

\* sum(xp for xp in xp_values if xp is not None and xp > 0); an entry of
\* xp_values is NoneRet or Ret(n)
RECURSIVE sum_xp(_)
sum_xp(xp_values) ==
    IF xp_values = <<>> THEN 0
    ELSE LET xp == Head(xp_values)
         IN  (IF xp # NoneRet /\ xp.val > 0 THEN xp.val ELSE 0)
             + sum_xp(Tail(xp_values))

\* core_player_calculators.calculate_total_xp
calculate_total_xp(xp_values) == Ret(sum_xp(xp_values))

\* player_stats_getters.get_skill_xp, of one skill entry
getters_get_skill_xp(skill_data) ==
    IF "xp" \in DOMAIN skill_data THEN Ret(skill_data.xp) ELSE NoneRet

\* ---- the state machine of the experience totals --------------------------
\* A player record is drawn; the five totals of player_stats are taken of it,
\* and calculate_total_xp is given the xp values of its entries, in order.
MaxEntries == 3

NameSamples == {"Attack", "Farming", "Cooking", "Sailing"}

\* -1 is the hiscores' unranked sentinel
XpSamples == {-1, 0, 2}

\* a skill entry with an xp, and one without the 'xp' field
XpEntries ==
    {[name |-> n, xp |-> x] : n \in NameSamples, x \in XpSamples}
    \cup {[name |-> "Farming"]}

\* the 'skills' lists of k entries
XpSkillLists(k) == [1..k -> XpEntries]

entry_xp_values(pd) ==
    IF "skills" \in DOMAIN pd
    THEN [i \in 1..Len(pd.skills) |-> getters_get_skill_xp(pd.skills[i])]
    ELSE <<>>

TotalsCall(fn, module, xp_values) ==
    [fn |-> fn, module |-> module, xp_values |-> xp_values]

InitTotals ==
    /\ resource = [kind |-> "missing", content |-> <<>>]
    /\ osrs_data_xp_table = NoCache
    /\ player_stats_xp_table = NoCache
    /\ levels = EmptyDict
    /\ \/ player_data = EmptyDict
       \/ \E k \in 0..MaxEntries :
              \E sk \in XpSkillLists(k) : player_data = [skills |-> sk]
    /\ call = TotalsCall("", "", <<>>)
    /\ ret = NoneRet
    /\ opens = NoOpens
    /\ handlers = <<>>
    /\ log_files = <<>>
    /\ setups = 0
    /\ threads = <<>>

CalculateTotalCombatXp ==
    /\ call' = TotalsCall("calculate_total_combat_xp", "player_stats", <<>>)
    /\ ret' = calculate_total_combat_xp(player_data)
    /\ UNCHANGED <<handlers, log_files, setups, threads,
                   resource, osrs_data_xp_table, player_stats_xp_table, opens,
                   levels, player_data>>

CalculateTotalNonCombatXp ==
    /\ call' = TotalsCall("calculate_total_non_combat_xp", "player_stats", <<>>)
    /\ ret' = calculate_total_non_combat_xp(player_data)
    /\ UNCHANGED <<handlers, log_files, setups, threads,
                   resource, osrs_data_xp_table, player_stats_xp_table, opens,
                   levels, player_data>>

CalculateTotalGatheringXp ==
    /\ call' = TotalsCall("calculate_total_gathering_xp", "player_stats", <<>>)
    /\ ret' = calculate_total_gathering_xp(player_data)
    /\ UNCHANGED <<handlers, log_files, setups, threads,
                   resource, osrs_data_xp_table, player_stats_xp_table, opens,
                   levels, player_data>>

CalculateTotalProductionXp ==
    /\ call' = TotalsCall("calculate_total_production_xp", "player_stats", <<>>)
    /\ ret' = calculate_total_production_xp(player_data)
    /\ UNCHANGED <<handlers, log_files, setups, threads,
                   resource, osrs_data_xp_table, player_stats_xp_table, opens,
                   levels, player_data>>

CalculateTotalUtilityXp ==
    /\ call' = TotalsCall("calculate_total_utility_xp", "player_stats", <<>>)
    /\ ret' = calculate_total_utility_xp(player_data)
    /\ UNCHANGED <<handlers, log_files, setups, threads,
                   resource, osrs_data_xp_table, player_stats_xp_table, opens,
                   levels, player_data>>

CalculateTotalXp ==
    LET xp_values == entry_xp_values(player_data)
    IN  /\ call' = TotalsCall("calculate_total_xp", "core", xp_values)
        /\ ret' = calculate_total_xp(xp_values)
        /\ UNCHANGED <<handlers, log_files, setups, threads,
                       resource, osrs_data_xp_table, player_stats_xp_table,
                       opens, levels, player_data>>

NextTotals ==
    \/ CalculateTotalCombatXp
    \/ CalculateTotalNonCombatXp
    \/ CalculateTotalGatheringXp
    \/ CalculateTotalProductionXp
    \/ CalculateTotalUtilityXp
    \/ CalculateTotalXp

SpecTotals == InitTotals /\ [][NextTotals]_vars

\* ---- maxed checks --------------------------------------------------------
\* combat_levels.get(skill)
dict_get(d, key) == IF key \in DOMAIN d THEN Ret(d[key]) ELSE NoneRet

\* the loop passing over a skill the mapping does not hold
RECURSIVE is_maxed_combat_loop_skips_missing(_, _)
is_maxed_combat_loop_skips_missing(combat_levels, skills) ==
    IF skills = <<>> THEN TRUE
    ELSE LET level == dict_get(combat_levels, Head(skills))
         IN  IF level # NoneRet /\ level.val < MAX_SKILL_LEVEL THEN FALSE
             ELSE is_maxed_combat_loop_skips_missing(combat_levels, Tail(skills))

\* core_player_calculators.is_maxed_combat's loop over a list of skills:
\*     level = combat_levels.get(skill)
\*     if level is None or level < MAX_SKILL_LEVEL: return False
\* and True after the last skill
RECURSIVE is_maxed_combat_loop(_, _)
is_maxed_combat_loop(combat_levels, skills) ==
    IF skills = <<>> THEN TRUE
    ELSE LET level == dict_get(combat_levels, Head(skills))
         IN  IF level = NoneRet \/ level.val < MAX_SKILL_LEVEL THEN FALSE
             ELSE is_maxed_combat_loop(combat_levels, Tail(skills))

is_maxed_combat(combat_levels) ==
    Ret(is_maxed_combat_loop(combat_levels, COMBAT_SKILLS))

\* player_stats.is_maxed_combat's loop, with get_skill_level as the lookup
RECURSIVE ps_is_maxed_combat_loop(_, _)
ps_is_maxed_combat_loop(pd, skills) ==
    IF skills = <<>> THEN TRUE
    ELSE LET level == get_skill_level(pd, Head(skills))
         IN  IF level = NoneRet \/ level.val < MAX_SKILL_LEVEL THEN FALSE
             ELSE ps_is_maxed_combat_loop(pd, Tail(skills))

ps_is_maxed_combat(pd) == Ret(ps_is_maxed_combat_loop(pd, PS_COMBAT_SKILLS))

\* is_maxed_total comparing with >= in place of ==
is_maxed_total_at_least(total_level) ==
    IF total_level = NoneRet THEN Ret(FALSE)
    ELSE Ret(total_level.val >= MAX_TOTAL_LEVEL)

\* core_player_calculators.is_maxed_total; total_level is NoneRet or Ret(n)
is_maxed_total(total_level) ==
    IF total_level = NoneRet THEN Ret(FALSE)
    ELSE Ret(total_level.val = MAX_TOTAL_LEVEL)

\* player_stats.get_total_level
get_total_level(pd) == get_skill_level(pd, "Overall")

\* player_stats.is_maxed_total: None == MAX_TOTAL_LEVEL is False
ps_is_maxed_total(pd) ==
    LET total_level == get_total_level(pd)
    IN  Ret(total_level # NoneRet /\ total_level.val = MAX_TOTAL_LEVEL)

\* ---- the state machine of is_maxed_combat --------------------------------
\* the levels around the cap of 99 (virtual levels go above it)
MaxedLevelSamples ==
    {MAX_SKILL_LEVEL - 1, MAX_SKILL_LEVEL, MAX_SKILL_LEVEL + 1}

MaxedMappings ==
    UNION {[present -> MaxedLevelSamples] : present \in SUBSET CombatSkillNames}

MaxedCall(fn, module, total_level) ==
    [fn |-> fn, module |-> module, total_level |-> total_level]

InitMaxed ==
    /\ resource = [kind |-> "missing", content |-> <<>>]
    /\ osrs_data_xp_table = NoCache
    /\ player_stats_xp_table = NoCache
    /\ levels \in MaxedMappings
    /\ player_data \in PlayerRecords(levels)
    /\ call = MaxedCall("", "", NoneRet)
    /\ ret = NoneRet
    /\ opens = NoOpens
    /\ handlers = <<>>
    /\ log_files = <<>>
    /\ setups = 0
    /\ threads = <<>>

IsMaxedCombat ==
    /\ call' = MaxedCall("is_maxed_combat", "core", NoneRet)
    /\ ret' = is_maxed_combat(levels)
    /\ UNCHANGED <<handlers, log_files, setups, threads,
                   resource, osrs_data_xp_table, player_stats_xp_table, opens,
                   levels, player_data>>

PsIsMaxedCombat ==
    /\ call' = MaxedCall("is_maxed_combat", "player_stats", NoneRet)
    /\ ret' = ps_is_maxed_combat(player_data)
    /\ UNCHANGED <<handlers, log_files, setups, threads,
                   resource, osrs_data_xp_table, player_stats_xp_table, opens,
                   levels, player_data>>

NextMaxed ==
    \/ IsMaxedCombat
    \/ PsIsMaxedCombat

SpecMaxed == InitMaxed /\ [][NextMaxed]_vars

\* ---- the state machine of is_maxed_total ---------------------------------
\* the total levels around the maximum
TotalLevelSamples == {0, MAX_TOTAL_LEVEL - 1, MAX_TOTAL_LEVEL, MAX_TOTAL_LEVEL + 1}

TotalLevelInputs == {NoneRet} \cup {Ret(t) : t \in TotalLevelSamples}

\* entries of a record: "Overall" with a level or without one, and a skill
TotalEntries ==
    {[name |-> "Overall", level |-> t] : t \in TotalLevelSamples}
    \cup {[name |-> "Overall"], [name |-> "Attack", level |-> MAX_SKILL_LEVEL]}

\* the 'skills' lists of k entries
TotalSkillLists(k) == [1..k -> TotalEntries]

InitTotalLevel ==
    /\ resource = [kind |-> "missing", content |-> <<>>]
    /\ osrs_data_xp_table = NoCache
    /\ player_stats_xp_table = NoCache
    /\ levels = EmptyDict
    /\ \/ player_data = EmptyDict
       \/ \E k \in 0..MaxEntries :
              \E sk \in TotalSkillLists(k) : player_data = [skills |-> sk]
    /\ call = MaxedCall("", "", NoneRet)
    /\ ret = NoneRet
    /\ opens = NoOpens
    /\ handlers = <<>>
    /\ log_files = <<>>
    /\ setups = 0
    /\ threads = <<>>

IsMaxedTotal ==
    \E total_level \in TotalLevelInputs :
        /\ call' = MaxedCall("is_maxed_total", "core", total_level)
        /\ ret' = is_maxed_total(total_level)
        /\ UNCHANGED <<handlers, log_files, setups, threads,
                       resource, osrs_data_xp_table, player_stats_xp_table,
                       opens, levels, player_data>>

PsIsMaxedTotal ==
    /\ call' = MaxedCall("is_maxed_total", "player_stats", NoneRet)
    /\ ret' = ps_is_maxed_total(player_data)
    /\ UNCHANGED <<handlers, log_files, setups, threads,
                   resource, osrs_data_xp_table, player_stats_xp_table, opens,
                   levels, player_data>>

NextTotalLevel ==
    \/ IsMaxedTotal
    \/ PsIsMaxedTotal

SpecTotalLevel == InitTotalLevel /\ [][NextTotalLevel]_vars

\* ---- the accessors of a player record -----------------------------------
\* hiscores_parser.get_activity_data: player_data.get('activities', [])
get_activity_data(pd, activity_name) ==
    LET activities == IF "activities" \in DOMAIN pd THEN pd.activities ELSE <<>>
    IN  find_item_by_name(activities, activity_name)

\* the Optional[Dict] a lookup returns
found_item(found) == IF found = <<>> THEN NoneRet ELSE Ret(found[1])

\* get_skill_rank subscripting skill_data['rank'] without the `in` test
get_skill_rank_unchecked(pd, skill_name) ==
    LET skill_data == get_skill_data(pd, skill_name)
    IN  IF skill_data = <<>> THEN NoneRet
        ELSE IF "rank" \in DOMAIN skill_data[1] THEN Ret(skill_data[1].rank)
        ELSE Raise("KeyError")

\* player_stats.get_skill_rank. An empty dict is falsy, and int() of an
\* integer field is that integer.
get_skill_rank(pd, skill_name) ==
    LET skill_data == get_skill_data(pd, skill_name)
    IN  IF /\ skill_data # <<>>
           /\ DOMAIN skill_data[1] # {}
           /\ "rank" \in DOMAIN skill_data[1]
        THEN Ret(skill_data[1].rank)
        ELSE NoneRet

get_overall_rank(pd) == get_skill_rank(pd, "Overall")

get_overall_xp(pd) == get_skill_xp(pd, "Overall")

\* player_stats.get_activity_score
get_activity_score(pd, activity_name) ==
    LET activity_data == get_activity_data(pd, activity_name)
    IN  IF /\ activity_data # <<>>
           /\ DOMAIN activity_data[1] # {}
           /\ "score" \in DOMAIN activity_data[1]
        THEN Ret(activity_data[1].score)
        ELSE NoneRet

\* player_stats.get_activity_rank
get_activity_rank(pd, activity_name) ==
    LET activity_data == get_activity_data(pd, activity_name)
    IN  IF /\ activity_data # <<>>
           /\ DOMAIN activity_data[1] # {}
           /\ "rank" \in DOMAIN activity_data[1]
        THEN Ret(activity_data[1].rank)
        ELSE NoneRet

\* player_stats_getters, of one entry: `if '<field>' in entry: return
\* int(entry['<field>'])`, None otherwise
getters_get_skill_level(skill_data) ==
    IF "level" \in DOMAIN skill_data THEN Ret(skill_data.level) ELSE NoneRet

getters_get_skill_rank(skill_data) ==
    IF "rank" \in DOMAIN skill_data THEN Ret(skill_data.rank) ELSE NoneRet

getters_get_activity_score(activity_data) ==
    IF "score" \in DOMAIN activity_data THEN Ret(activity_data.score)
    ELSE NoneRet

getters_get_activity_rank(activity_data) ==
    IF "rank" \in DOMAIN activity_data THEN Ret(activity_data.rank)
    ELSE NoneRet

\* ---- the state machine of the accessors ---------------------------------
\* A player record is drawn; the lookups and getters are called on it with a
\* name, and the getters of player_stats_getters on each of its entries.
MaxItems == 2

\* skill entries: a ranked one, an unranked one (-1), one with no field, one
\* whose name differs in case and whose numbers are 0, one without a name, an
\* "Overall" entry, and the empty dict
SkillEntrySamples ==
    {[name |-> "Attack", rank |-> 5, level |-> 99, xp |-> 7],
     [name |-> "Attack", rank |-> -1, level |-> 1, xp |-> -1],
     [name |-> "Attack"],
     [name |-> "attack", rank |-> 0, level |-> 2, xp |-> 0],
     [rank |-> 1, level |-> 3, xp |-> 3],
     [name |-> "Overall", rank |-> -1, level |-> 4, xp |-> 0],
     EmptyDict}

ActivityEntrySamples ==
    {[name |-> "Zulrah", rank |-> 500, score |-> 2500],
     [name |-> "Zulrah", rank |-> -1, score |-> -1],
     [name |-> "Zulrah"],
     [name |-> "zulrah", rank |-> 0, score |-> 0]}

SkillNameInputs == {"Attack", "attack", "Overall"}

ActivityNameInputs == {"Zulrah", "zulrah"}

SkillsOf(pd) == IF "skills" \in DOMAIN pd THEN pd.skills ELSE <<>>

ActivitiesOf(pd) == IF "activities" \in DOMAIN pd THEN pd.activities ELSE <<>>

AccessCall(fn, module, name, entry) ==
    [fn |-> fn, module |-> module, name |-> name, entry |-> entry]

InitAccess ==
    /\ resource = [kind |-> "missing", content |-> <<>>]
    /\ osrs_data_xp_table = NoCache
    /\ player_stats_xp_table = NoCache
    /\ levels = EmptyDict
    /\ \/ player_data = EmptyDict
       \/ player_data = [skills |-> <<>>, activities |-> <<>>]
       \/ \E k \in 0..MaxItems :
              \E sk \in [1..k -> SkillEntrySamples] :
                  player_data = [skills |-> sk]
       \/ \E k \in 0..MaxItems :
              \E ac \in [1..k -> ActivityEntrySamples] :
                  player_data = [activities |-> ac]
    /\ call = AccessCall("", "", "", EmptyDict)
    /\ ret = NoneRet
    /\ opens = NoOpens
    /\ handlers = <<>>
    /\ log_files = <<>>
    /\ setups = 0
    /\ threads = <<>>

GetSkillData ==
    \E name \in SkillNameInputs :
        /\ call' = AccessCall("get_skill_data", "hiscores_parser", name, EmptyDict)
        /\ ret' = found_item(get_skill_data(player_data, name))
        /\ UNCHANGED <<handlers, log_files, setups, threads,
                       resource, osrs_data_xp_table, player_stats_xp_table, opens,
                       levels, player_data>>

GetActivityData ==
    \E name \in ActivityNameInputs :
        /\ call' = AccessCall("get_activity_data", "hiscores_parser", name, EmptyDict)
        /\ ret' = found_item(get_activity_data(player_data, name))
        /\ UNCHANGED <<handlers, log_files, setups, threads,
                       resource, osrs_data_xp_table, player_stats_xp_table, opens,
                       levels, player_data>>

GetSkillLevel ==
    \E name \in SkillNameInputs :
        /\ call' = AccessCall("get_skill_level", "player_stats", name, EmptyDict)
        /\ ret' = get_skill_level(player_data, name)
        /\ UNCHANGED <<handlers, log_files, setups, threads,
                       resource, osrs_data_xp_table, player_stats_xp_table, opens,
                       levels, player_data>>

GetSkillXp ==
    \E name \in SkillNameInputs :
        /\ call' = AccessCall("get_skill_xp", "player_stats", name, EmptyDict)
        /\ ret' = get_skill_xp(player_data, name)
        /\ UNCHANGED <<handlers, log_files, setups, threads,
                       resource, osrs_data_xp_table, player_stats_xp_table, opens,
                       levels, player_data>>

GetSkillRank ==
    \E name \in SkillNameInputs :
        /\ call' = AccessCall("get_skill_rank", "player_stats", name, EmptyDict)
        /\ ret' = get_skill_rank(player_data, name)
        /\ UNCHANGED <<handlers, log_files, setups, threads,
                       resource, osrs_data_xp_table, player_stats_xp_table, opens,
                       levels, player_data>>

GetOverallRank ==
    /\ call' = AccessCall("get_overall_rank", "player_stats", "Overall", EmptyDict)
    /\ ret' = get_overall_rank(player_data)
    /\ UNCHANGED <<handlers, log_files, setups, threads,
                   resource, osrs_data_xp_table, player_stats_xp_table, opens,
                   levels, player_data>>

GetTotalLevel ==
    /\ call' = AccessCall("get_total_level", "player_stats", "Overall", EmptyDict)
    /\ ret' = get_total_level(player_data)
    /\ UNCHANGED <<handlers, log_files, setups, threads,
                   resource, osrs_data_xp_table, player_stats_xp_table, opens,
                   levels, player_data>>

GetOverallXp ==
    /\ call' = AccessCall("get_overall_xp", "player_stats", "Overall", EmptyDict)
    /\ ret' = get_overall_xp(player_data)
    /\ UNCHANGED <<handlers, log_files, setups, threads,
                   resource, osrs_data_xp_table, player_stats_xp_table, opens,
                   levels, player_data>>

GetActivityScore ==
    \E name \in ActivityNameInputs :
        /\ call' = AccessCall("get_activity_score", "player_stats", name, EmptyDict)
        /\ ret' = get_activity_score(player_data, name)
        /\ UNCHANGED <<handlers, log_files, setups, threads,
                       resource, osrs_data_xp_table, player_stats_xp_table, opens,
                       levels, player_data>>

GetActivityRank ==
    \E name \in ActivityNameInputs :
        /\ call' = AccessCall("get_activity_rank", "player_stats", name, EmptyDict)
        /\ ret' = get_activity_rank(player_data, name)
        /\ UNCHANGED <<handlers, log_files, setups, threads,
                       resource, osrs_data_xp_table, player_stats_xp_table, opens,
                       levels, player_data>>

GettersGetSkillLevel ==
    \E i \in DOMAIN SkillsOf(player_data) :
        LET entry == SkillsOf(player_data)[i]
        IN  /\ call' = AccessCall("get_skill_level", "player_stats_getters", "", entry)
            /\ ret' = getters_get_skill_level(entry)
            /\ UNCHANGED <<handlers, log_files, setups, threads,
                           resource, osrs_data_xp_table, player_stats_xp_table, opens,
                           levels, player_data>>

GettersGetSkillXp ==
    \E i \in DOMAIN SkillsOf(player_data) :
        LET entry == SkillsOf(player_data)[i]
        IN  /\ call' = AccessCall("get_skill_xp", "player_stats_getters", "", entry)
            /\ ret' = getters_get_skill_xp(entry)
            /\ UNCHANGED <<handlers, log_files, setups, threads,
                           resource, osrs_data_xp_table, player_stats_xp_table, opens,
                           levels, player_data>>

GettersGetSkillRank ==
    \E i \in DOMAIN SkillsOf(player_data) :
        LET entry == SkillsOf(player_data)[i]
        IN  /\ call' = AccessCall("get_skill_rank", "player_stats_getters", "", entry)
            /\ ret' = getters_get_skill_rank(entry)
            /\ UNCHANGED <<handlers, log_files, setups, threads,
                           resource, osrs_data_xp_table, player_stats_xp_table, opens,
                           levels, player_data>>

GettersGetActivityScore ==
    \E i \in DOMAIN ActivitiesOf(player_data) :
        LET entry == ActivitiesOf(player_data)[i]
        IN  /\ call' = AccessCall("get_activity_score", "player_stats_getters", "", entry)
            /\ ret' = getters_get_activity_score(entry)
            /\ UNCHANGED <<handlers, log_files, setups, threads,
                           resource, osrs_data_xp_table, player_stats_xp_table, opens,
                           levels, player_data>>

GettersGetActivityRank ==
    \E i \in DOMAIN ActivitiesOf(player_data) :
        LET entry == ActivitiesOf(player_data)[i]
        IN  /\ call' = AccessCall("get_activity_rank", "player_stats_getters", "", entry)
            /\ ret' = getters_get_activity_rank(entry)
            /\ UNCHANGED <<handlers, log_files, setups, threads,
                           resource, osrs_data_xp_table, player_stats_xp_table, opens,
                           levels, player_data>>

NextAccess ==
    \/ GetSkillData
    \/ GetActivityData
    \/ GetSkillLevel
    \/ GetSkillXp
    \/ GetSkillRank
    \/ GetOverallRank
    \/ GetTotalLevel
    \/ GetOverallXp
    \/ GetActivityScore
    \/ GetActivityRank
    \/ GettersGetSkillLevel
    \/ GettersGetSkillXp
    \/ GettersGetSkillRank
    \/ GettersGetActivityScore
    \/ GettersGetActivityRank

SpecAccess == InitAccess /\ [][NextAccess]_vars

\* ---- fetching a record from the hiscores service ------------------------
\* osrs_hiscores_api.BASE_URLS: the endpoint of each mode, by its last path
\* segment
BASE_URLS ==
    [normal |-> "m=hiscore_oldschool",
     ironman |-> "m=hiscore_oldschool_ironman",
     hardcore |-> "m=hiscore_oldschool_hardcore_ironman",
     ultimate |-> "m=hiscore_oldschool_ultimate",
     deadman |-> "m=hiscore_oldschool_deadman",
     seasonal |-> "m=hiscore_oldschool_seasonal",
     tournament |-> "m=hiscore_oldschool_tournament",
     fresh_start |-> "m=hiscore_oldschool_fresh_start"]

\* HiscoreError and its subclasses
HiscoreErrors ==
    {"HiscoreError", "HiscoreHTTPError", "HiscoreModeError",
     "HiscoreFormatError"}

\* osrs_hiscores_api.build_url; the URL is <<endpoint, file, player>>
build_url(player, mode, format) ==
    IF mode \notin DOMAIN BASE_URLS THEN Raise("HiscoreModeError")
    ELSE IF format \notin {"json", "csv"} THEN Raise("HiscoreFormatError")
    ELSE Ret(<<BASE_URLS[mode],
               IF format = "json" THEN "index_lite.json" ELSE "index_lite.ws",
               player>>)

\* what requests.get does: it raises a RequestException, or gives a response
\* with a status code and a body; response.ok is status_code < 400
Transfer(kind, exc, status_code, json_ok) ==
    [kind |-> kind, exc |-> exc, status_code |-> status_code,
     json_ok |-> json_ok]

response_ok(response) == response.status_code < 400

\* the body of a response: as text, and parsed as JSON
response_text == "280,1466,27957906"

response_json == [name |-> "TestUser"]

\* the outcome of a call and the URLs it requested, in order
Fetched(outcome, requests) == [ret |-> outcome, requests |-> requests]

\* fetch_hiscore returning response.json() outside a try block
fetch_hiscore_bare_json(player, mode, format, net) ==
    LET url == build_url(player, mode, format)
    IN  IF url.kind = "raise" THEN Fetched(url, <<>>)
        ELSE IF net.kind = "exception"
        THEN Fetched(Raise("HiscoreHTTPError"), <<url.val>>)
        ELSE IF ~response_ok(net)
        THEN Fetched(Raise("HiscoreHTTPError"), <<url.val>>)
        ELSE IF format = "json"
        THEN Fetched(IF net.json_ok THEN Ret(response_json)
                     ELSE Raise("JSONDecodeError"), <<url.val>>)
        ELSE Fetched(Ret(response_text), <<url.val>>)

\* osrs_hiscores_api.fetch_hiscore, with net what requests.get does
fetch_hiscore(player, mode, format, net) ==
    LET url == build_url(player, mode, format)
    IN  IF url.kind = "raise" THEN Fetched(url, <<>>)
        ELSE IF net.kind = "exception"
        THEN Fetched(Raise("HiscoreHTTPError"), <<url.val>>)
        ELSE IF ~response_ok(net)
        THEN Fetched(Raise("HiscoreHTTPError"), <<url.val>>)
        ELSE IF format = "json"
        THEN Fetched(IF net.json_ok THEN Ret(response_json)
                     ELSE Raise("HiscoreHTTPError"), <<url.val>>)
        ELSE Fetched(Ret(response_text), <<url.val>>)

\* src/osrs_hiscores_api.build_url, which logs before it raises or returns
src_build_url(player, mode, format) ==
    IF mode \notin DOMAIN BASE_URLS THEN Raise("HiscoreModeError")
    ELSE IF format \notin {"json", "csv"} THEN Raise("HiscoreFormatError")
    ELSE Ret(<<BASE_URLS[mode],
               IF format = "json" THEN "index_lite.json" ELSE "index_lite.ws",
               player>>)

\* src/osrs_hiscores_api.fetch_hiscore
src_fetch_hiscore(player, mode, format, net) ==
    LET url == src_build_url(player, mode, format)
    IN  IF url.kind = "raise" THEN Fetched(url, <<>>)
        ELSE IF net.kind = "exception"
        THEN Fetched(Raise("HiscoreHTTPError"), <<url.val>>)
        ELSE IF ~response_ok(net)
        THEN Fetched(Raise("HiscoreHTTPError"), <<url.val>>)
        ELSE IF format = "json"
        THEN Fetched(IF net.json_ok THEN Ret(response_json)
                     ELSE Raise("HiscoreHTTPError"), <<url.val>>)
        ELSE Fetched(Ret(response_text), <<url.val>>)

\* ---- the state machine of fetching --------------------------------------
PlayerInputs == {"Zezima", "Iron_Man"}

ModeInputs == {"normal", "ironman", "invalid_mode"}

FormatInputs == {"json", "csv", "xml"}

\* a connection error, a timeout, or a response of some status whose body
\* is or is not JSON
Transfers ==
    {Transfer("exception", e, 0, FALSE) : e \in {"ConnectionError", "Timeout"}}
    \cup {Transfer("response", "", st, j) :
              st \in {200, 404, 500}, j \in BOOLEAN}

NoTransfer == Transfer("", "", 0, FALSE)

FetchCall(fn, module, player, mode, format, net, requests) ==
    [fn |-> fn, module |-> module, player |-> player, mode |-> mode,
     format |-> format, net |-> net, requests |-> requests]

InitFetch ==
    /\ resource = [kind |-> "missing", content |-> <<>>]
    /\ osrs_data_xp_table = NoCache
    /\ player_stats_xp_table = NoCache
    /\ levels = EmptyDict
    /\ player_data = EmptyDict
    /\ call = FetchCall("", "", "", "", "", NoTransfer, <<>>)
    /\ ret = NoneRet
    /\ opens = NoOpens
    /\ handlers = <<>>
    /\ log_files = <<>>
    /\ setups = 0
    /\ threads = <<>>

BuildUrl ==
    \E player \in PlayerInputs, mode \in ModeInputs, format \in FormatInputs :
        /\ call' = FetchCall("build_url", "osrs_hiscores_api", player, mode,
                             format, NoTransfer, <<>>)
        /\ ret' = build_url(player, mode, format)
        /\ UNCHANGED <<handlers, log_files, setups, threads,
                       resource, osrs_data_xp_table, player_stats_xp_table,
                       opens, levels, player_data>>

FetchHiscore ==
    \E player \in PlayerInputs, mode \in ModeInputs, format \in FormatInputs,
       net \in Transfers :
        LET fetched == fetch_hiscore(player, mode, format, net)
        IN  /\ call' = FetchCall("fetch_hiscore", "osrs_hiscores_api", player,
                                 mode, format, net, fetched.requests)
            /\ ret' = fetched.ret
            /\ UNCHANGED <<handlers, log_files, setups, threads,
                           resource, osrs_data_xp_table,
                           player_stats_xp_table, opens, levels, player_data>>

SrcFetchHiscore ==
    \E player \in PlayerInputs, mode \in ModeInputs, format \in FormatInputs,
       net \in Transfers :
        LET fetched == src_fetch_hiscore(player, mode, format, net)
        IN  /\ call' = FetchCall("fetch_hiscore", "src.osrs_hiscores_api",
                                 player, mode, format, net, fetched.requests)
            /\ ret' = fetched.ret
            /\ UNCHANGED <<handlers, log_files, setups, threads,
                           resource, osrs_data_xp_table,
                           player_stats_xp_table, opens, levels, player_data>>

NextFetch ==
    \/ BuildUrl
    \/ FetchHiscore
    \/ SrcFetchHiscore

SpecFetch == InitFetch /\ [][NextFetch]_vars

\* ---- the handlers of the root logger ------------------------------------
\* an Optional[str] argument: None, or a string
NoPath == [given |-> FALSE, path |-> ""]

Path(s) == [given |-> TRUE, path |-> s]

\* `if app_log_path:` None and the empty string are falsy
truthy(p) == p.given /\ p.path # ""

\* a handler: its class, the stream or file it writes to, its level, and the
\* setup_logger call that created it
Handler(class, file, level, setup) ==
    [class |-> class, file |-> file, level |-> level, setup |-> setup]

\* logging.FileHandler(path, mode='a') opens the file; in a directory that
\* does not exist it raises FileNotFoundError
UnopenablePaths == {"no_such_dir/app.log"}

open_fails(p) == p.path \in UnopenablePaths

\* the outcome of setup_logger and the handlers it leaves
Configured(hs, outcome) == [handlers |-> hs, ret |-> outcome]

\* setup_logger without `logger.handlers.clear()`
setup_logger_keeps_handlers(old, app_log_path, debug_log_path, n) ==
    LET console == old \o <<Handler("StreamHandler", "sys.stdout", "INFO", n)>>
        with_app ==
            console \o (IF truthy(app_log_path)
                        THEN <<Handler("FileHandler", app_log_path.path,
                                       "INFO", n)>>
                        ELSE <<>>)
    IN  IF truthy(app_log_path) /\ open_fails(app_log_path)
        THEN Configured(console, Raise("FileNotFoundError"))
        ELSE IF truthy(debug_log_path) /\ open_fails(debug_log_path)
        THEN Configured(with_app, Raise("FileNotFoundError"))
        ELSE Configured(
                 with_app \o (IF truthy(debug_log_path)
                              THEN <<Handler("FileHandler", debug_log_path.path,
                                             "DEBUG", n)>>
                              ELSE <<>>),
                 Ret("root"))

\* logger_setup.setup_logger, the n-th call, with old the handlers of the
\* root logger: the list is cleared, then a console handler and a file
\* handler for each truthy path are appended, up to the first file that
\* cannot be opened
setup_logger(old, app_log_path, debug_log_path, n) ==
    LET console == <<Handler("StreamHandler", "sys.stdout", "INFO", n)>>
        with_app ==
            console \o (IF truthy(app_log_path)
                        THEN <<Handler("FileHandler", app_log_path.path,
                                       "INFO", n)>>
                        ELSE <<>>)
    IN  IF truthy(app_log_path) /\ open_fails(app_log_path)
        THEN Configured(console, Raise("FileNotFoundError"))
        ELSE IF truthy(debug_log_path) /\ open_fails(debug_log_path)
        THEN Configured(with_app, Raise("FileNotFoundError"))
        ELSE Configured(
                 with_app \o (IF truthy(debug_log_path)
                              THEN <<Handler("FileHandler", debug_log_path.path,
                                             "DEBUG", n)>>
                              ELSE <<>>),
                 Ret("root"))

\* logging's levels
levelno(levelname) == IF levelname = "DEBUG" THEN 10 ELSE 20

\* a record as a handler writes it: its level, the number of setup_logger
\* calls made when it was logged, and the call whose handler wrote it
Written(levelname, logged_after, handler) ==
    [levelname |-> levelname, logged_after |-> logged_after,
     by |-> handler.setup]

\* Logger.callHandlers: each handler in turn emits a record at or above its
\* level
RECURSIVE callHandlers(_, _, _, _)
callHandlers(hs, files, levelname, n) ==
    IF hs = <<>> THEN files
    ELSE LET h == Head(hs)
             emitted ==
                 IF levelno(levelname) >= levelno(h.level)
                 THEN [files EXCEPT ![h.file] =
                           Append(@, Written(levelname, n, h))]
                 ELSE files
         IN  callHandlers(Tail(hs), emitted, levelname, n)

\* ---- the state machine of logging ---------------------------------------
MaxSetups == 2

MaxRecords == 2

AppLogPaths ==
    {NoPath, Path(""), Path("app.log"), Path("no_such_dir/app.log")}

DebugLogPaths == {NoPath, Path("debug.log"), Path("app.log")}

Streams == {"sys.stdout", "app.log", "debug.log"}

LogCall(fn, app_log_path, debug_log_path) ==
    [fn |-> fn, app_log_path |-> app_log_path,
     debug_log_path |-> debug_log_path]

RECURSIVE RecordsWritten(_, _)
RecordsWritten(files, streams) ==
    IF streams = {} THEN 0
    ELSE LET f == CHOOSE f \in streams : TRUE
         IN  Len(files[f]) + RecordsWritten(files, streams \ {f})

InitLogger ==
    /\ resource = [kind |-> "missing", content |-> <<>>]
    /\ osrs_data_xp_table = NoCache
    /\ player_stats_xp_table = NoCache
    /\ levels = EmptyDict
    /\ player_data = EmptyDict
    /\ call = LogCall("", NoPath, NoPath)
    /\ ret = NoneRet
    /\ opens = NoOpens
    /\ handlers = <<>>
    /\ log_files = [f \in Streams |-> <<>>]
    /\ setups = 0
    /\ threads = <<>>

SetupLogger ==
    /\ setups < MaxSetups
    /\ \E app_log_path \in AppLogPaths, debug_log_path \in DebugLogPaths :
           LET configured == setup_logger(handlers, app_log_path,
                                          debug_log_path, setups + 1)
           IN  /\ handlers' = configured.handlers
               /\ ret' = configured.ret
               /\ call' = LogCall("setup_logger", app_log_path, debug_log_path)
    /\ setups' = setups + 1
    /\ UNCHANGED <<log_files, threads, resource, osrs_data_xp_table,
                   player_stats_xp_table, opens, levels, player_data>>

\* logging.getLogger().info(...) or .debug(...)
Log ==
    /\ RecordsWritten(log_files, Streams) < MaxRecords
    /\ \E levelname \in {"DEBUG", "INFO"} :
           /\ log_files' = callHandlers(handlers, log_files, levelname, setups)
           /\ call' = LogCall(levelname, NoPath, NoPath)
    /\ ret' = NoneRet
    /\ UNCHANGED <<handlers, setups, threads, resource, osrs_data_xp_table,
                   player_stats_xp_table, opens, levels, player_data>>

NextLogger ==
    \/ SetupLogger
    \/ Log

SpecLogger == InitLogger /\ [][NextLogger]_vars

\* ---- concurrent callers of the loader -----------------------------------
\* Threads call get_xp_table (or all of them _load_xp_table); a thread can be
\* preempted between the test `_xp_table is None`, the open()/json.load(),
\* the assignment to _xp_table and the `return _xp_table`. No lock is taken.
MaxCallers == 2

Callers == 1..MaxCallers

RaceResources ==
    {[kind |-> "missing", content |-> <<>>],
     [kind |-> "array", content |-> <<0, 1>>],
     [kind |-> "array", content |-> <<0, 2>>]}

\* a caller: the module whose loader it runs, where it is, and the value it
\* has read and not yet assigned
Thread(module, pc, read) == [module |-> module, pc |-> pc, read |-> read]

\* the _xp_table of a module
XpTableOf(module) ==
    IF module = "core" THEN osrs_data_xp_table ELSE player_stats_xp_table

RaceCall(fn, module, caller) ==
    [fn |-> fn, module |-> module, caller |-> caller]

InitRace ==
    /\ resource \in RaceResources
    /\ osrs_data_xp_table = NoCache
    /\ player_stats_xp_table = NoCache
    /\ levels = EmptyDict
    /\ player_data = EmptyDict
    /\ call = RaceCall("", "", 0)
    /\ ret = NoneRet
    /\ opens = NoOpens
    /\ handlers = <<>>
    /\ log_files = <<>>
    /\ setups = 0
    /\ \E module \in {"core", "player_stats"} :
           threads = [c \in Callers |-> Thread(module, "idle", NoCache)]

\* the call is made
Enter(c) ==
    /\ threads[c].pc = "idle"
    /\ threads' = [threads EXCEPT ![c].pc = "check"]
    /\ UNCHANGED <<handlers, log_files, setups, resource, osrs_data_xp_table,
                   player_stats_xp_table, levels, player_data, call, ret,
                   opens>>

\* `if _xp_table is None:`
CheckCache(c) ==
    /\ threads[c].pc = "check"
    /\ threads' = [threads EXCEPT
                      ![c].pc = IF XpTableOf(threads[c].module).loaded
                                THEN "return" ELSE "load"]
    /\ UNCHANGED <<handlers, log_files, setups, resource, osrs_data_xp_table,
                   player_stats_xp_table, levels, player_data, call, ret,
                   opens>>

\* open(file_path) and json.load(f), or the handler of the exception: the
\* value to assign
ReadResource(c) ==
    /\ threads[c].pc = "load"
    /\ threads' = [threads EXCEPT
                      ![c].pc = "store",
                      ![c].read = IF threads[c].module = "core"
                                  THEN get_xp_table(NoCache, resource)
                                  ELSE load_xp_table(NoCache, resource)]
    /\ opens' = opened(threads[c].module, TRUE)
    /\ UNCHANGED <<handlers, log_files, setups, resource, osrs_data_xp_table,
                   player_stats_xp_table, levels, player_data, call, ret>>

\* `_xp_table = ...`
SetCache(c) ==
    /\ threads[c].pc = "store"
    /\ osrs_data_xp_table' = IF threads[c].module = "core"
                             THEN threads[c].read ELSE osrs_data_xp_table
    /\ player_stats_xp_table' = IF threads[c].module = "core"
                                THEN player_stats_xp_table
                                ELSE threads[c].read
    /\ threads' = [threads EXCEPT ![c].pc = "return", ![c].read = NoCache]
    /\ UNCHANGED <<handlers, log_files, setups, resource, levels, player_data,
                   call, ret, opens>>

\* `return _xp_table`
ReturnCache(c) ==
    /\ threads[c].pc = "return"
    /\ threads' = [threads EXCEPT ![c].pc = "idle"]
    /\ call' = RaceCall(IF threads[c].module = "core" THEN "get_xp_table"
                        ELSE "_load_xp_table", threads[c].module, c)
    /\ ret' = Ret(PyValue(XpTableOf(threads[c].module)))
    /\ UNCHANGED <<handlers, log_files, setups, resource, osrs_data_xp_table,
                   player_stats_xp_table, levels, player_data, opens>>

\* the environment: the file is created, removed or rewritten
RaceResourceChanges ==
    /\ resource' \in RaceResources \ {resource}
    /\ UNCHANGED <<handlers, log_files, setups, threads, osrs_data_xp_table,
                   player_stats_xp_table, levels, player_data, call, ret,
                   opens>>

NextRace ==
    \/ \E c \in Callers : Enter(c)
    \/ \E c \in Callers : CheckCache(c)
    \/ \E c \in Callers : ReadResource(c)
    \/ \E c \in Callers : SetCache(c)
    \/ \E c \in Callers : ReturnCache(c)
    \/ RaceResourceChanges

SpecRace == InitRace /\ [][NextRace]_vars

\* ==== properties ==========================================================
\* the table the last call worked on
CalledTable ==
    IF call.module = "core" THEN osrs_data_xp_table.table
    ELSE player_stats_xp_table.table

StrictlyIncreasing(t) == \A i \in 1..(Len(t) - 1) : t[i] < t[i + 1]

MaxOf(S) == CHOOSE m \in S : \A x \in S : x <= m

\* C1: on a non-empty, strictly increasing table that starts at 0, and for
\* xp >= 0, get_level_for_xp (both implementations) returns the highest level
\* L in 1..len(table) with table[L-1] <= xp.
C1_LevelIsRightmostEntryNotAboveXp ==
    (/\ call.fn = "get_level_for_xp"
     /\ CalledTable # <<>>
     /\ StrictlyIncreasing(CalledTable)
     /\ CalledTable[1] = 0
     /\ call.xp >= 0)
    => /\ ret.kind = "value"
       /\ ret.val \in 1..Len(CalledTable)
       /\ CalledTable[ret.val] <= call.xp
       /\ \A L \in (ret.val + 1)..Len(CalledTable) : CalledTable[L] > call.xp

\* a level strictly inside a three-level table, reached with xp strictly
\* between two thresholds
C1_Witness ==
    /\ call.fn = "get_level_for_xp"
    /\ Len(CalledTable) = 3
    /\ StrictlyIncreasing(CalledTable)
    /\ CalledTable[1] = 0
    /\ ret = Ret(2)
    /\ call.xp > CalledTable[2]

\* C2: on every non-empty table of length n, get_xp_for_level(level) returns
\* table[level-1] when 1 <= level <= n and None for every other level, and
\* never raises.
C2_XpForLevelBoundedByTableLength ==
    (call.fn = "get_xp_for_level" /\ CalledTable # <<>>)
    => IF 1 <= call.level /\ call.level <= Len(CalledTable)
       THEN ret = Ret(CalledTable[call.level])
       ELSE ret = NoneRet

\* C3: round trip: on every strictly increasing table and for every level L
\* with 1 <= L <= len(table), get_level_for_xp(get_xp_for_level(L)) = L.
C3_RoundTrip ==
    (/\ call.fn = "level_for_xp_of_level"
     /\ StrictlyIncreasing(CalledTable)
     /\ 1 <= call.level
     /\ call.level <= Len(CalledTable))
    => ret = Ret(call.level)

\* the levels the last combat-level call was given, read from its own input
GivenLevel(skill) ==
    IF call.module = "core" THEN levels[skill]
    ELSE LET i == CHOOSE j \in DOMAIN player_data.skills :
                      player_data.skills[j].name = skill
         IN  player_data.skills[i].level

SkillGiven(skill) ==
    IF call.module = "core" THEN skill \in DOMAIN levels
    ELSE /\ "skills" \in DOMAIN player_data
         /\ \E j \in DOMAIN player_data.skills :
                player_data.skills[j].name = skill

C5_AllNinetyNineIs126 ==
    (/\ call.fn = "calculate_combat_level"
     /\ \A skill \in CombatSkillNames :
            SkillGiven(skill) /\ GivenLevel(skill) = 99)
    => ret = Ret(126 * 40)

\* C6: with Attack, Strength, Defence, Hitpoints at 75 and Ranged, Prayer,
\* Magic at 1, calculate_combat_level returns exactly 97.5 (3900 fortieths).
C6_MixedBuildIs97AndAHalf ==
    (/\ call.fn = "calculate_combat_level"
     /\ \A skill \in CombatSkillNames : SkillGiven(skill)
     /\ \A skill \in {"Attack", "Strength", "Defence", "Hitpoints"} :
            GivenLevel(skill) = 75
     /\ \A skill \in {"Ranged", "Prayer", "Magic"} : GivenLevel(skill) = 1)
    => ret = Ret(3900)

\* C7: when at least one of the seven required skills is absent from the
\* input, calculate_combat_level returns no number: the mapping variant
\* raises KeyError, the full-record variant returns None.
C7_MissingSkillGivesNoNumber ==
    (/\ call.fn = "calculate_combat_level"
     /\ \E skill \in CombatSkillNames : ~SkillGiven(skill))
    => /\ ret.kind # "value"
       /\ call.module = "core" => ret = Raise("KeyError")
       /\ call.module = "player_stats" => ret = NoneRet

\* the full-record variant on a record that holds six of the seven skills
C7_Witness ==
    /\ call.fn = "calculate_combat_level"
    /\ call.module = "player_stats"
    /\ Cardinality({skill \in CombatSkillNames : SkillGiven(skill)}) = 6
    /\ ~SkillGiven("Magic")
    /\ ret = NoneRet

\* C8: get_xp_for_next_level(xp) returns None whenever the level of xp is the
\* table length and whenever the table is empty, for every table length and
\* every xp, without raising (both implementations).
C8_NoneAtMaxLevelOrEmptyTable ==
    (/\ call.fn = "get_xp_for_next_level"
     /\ \/ CalledTable = <<>>
        \/ get_level_for_xp(CalledTable, call.xp) = Len(CalledTable))
    => ret = NoneRet

\* C9: for xp in [0, MAX_XP] whose level is below the maximum level (the
\* table length), the core get_xp_for_next_level(xp) is the threshold of
\* level + 1 minus xp, and is >= 0.
C9_NextLevelShortfall ==
    (/\ call.fn = "get_xp_for_next_level"
     /\ call.module = "core"
     /\ 0 <= call.xp
     /\ call.xp <= MAX_XP
     /\ get_level_for_xp(CalledTable, call.xp) < Len(CalledTable))
    => /\ ret.kind = "value"
       /\ ret.val =
            CalledTable[get_level_for_xp(CalledTable, call.xp) + 1] - call.xp
       /\ ret.val >= 0

\* C10: get_xp_to_level(current_xp, target_level) returns None when the table
\* is empty or target_level is outside (1, len(table)]; 0 when current_xp >=
\* table[target_level-1]; otherwise the strictly positive shortfall
\* table[target_level-1] - current_xp.
C10_XpToLevel ==
    call.fn = "get_xp_to_level"
    => IF \/ CalledTable = <<>>
          \/ ~(1 < call.level /\ call.level <= Len(CalledTable))
       THEN ret = NoneRet
       ELSE IF call.xp >= CalledTable[call.level]
            THEN ret = Ret(0)
            ELSE /\ ret.kind = "value"
                 /\ ret.val = CalledTable[call.level] - call.xp
                 /\ ret.val > 0

\* a positive shortfall to the last level of a 126-entry table
C10_Witness ==
    /\ call.fn = "get_xp_to_level"
    /\ Len(CalledTable) = MAX_VIRTUAL_LEVEL
    /\ call.level = MAX_VIRTUAL_LEVEL
    /\ ret.kind = "value"
    /\ ret.val > 0

\* C11: a zero answer of get_xp_to_level is stable and monotone: once a call
\* with (xp, L) has returned 0, the next call with the same L and any xp' >= xp
\* (xp' = xp is the repeated call) returns 0 too.
C11_ZeroShortfallIsStableAndMonotone ==
    [][(/\ call.fn = "get_xp_to_level"
        /\ ret = Ret(0)
        /\ call'.fn = "get_xp_to_level"
        /\ call'.level = call.level
        /\ call'.xp >= call.xp)
       => ret' = Ret(0)]_vars

\* a call that answers 0 with an xp strictly above the target's threshold
C11_Witness ==
    /\ call.fn = "get_xp_to_level"
    /\ 1 < call.level
    /\ call.level <= Len(CalledTable)
    /\ call.xp > CalledTable[call.level]
    /\ ret = Ret(0)

\* C12: with an empty table get_level_for_xp returns 1 for every xp,
\* get_xp_for_level returns None for every level, and the next-level and
\* target-level functions return None; with a loaded (non-empty) table every
\* negative xp gives level 1.
C12_DegradedModeAndNegativeXp ==
    /\ (call.fn = "get_level_for_xp" /\ CalledTable = <<>>) => ret = Ret(1)
    /\ (call.fn = "get_xp_for_level" /\ CalledTable = <<>>) => ret = NoneRet
    /\ (call.fn = "get_xp_for_next_level" /\ CalledTable = <<>>)
       => ret = NoneRet
    /\ (call.fn = "get_xp_to_level" /\ CalledTable = <<>>) => ret = NoneRet
    /\ (call.fn = "get_level_for_xp" /\ CalledTable # <<>> /\ call.xp < 0)
       => ret = Ret(1)

\* the next-level function of core_player_calculators answering None after
\* the table resource was found missing
C12_Witness ==
    /\ resource.kind = "missing"
    /\ call.fn = "get_xp_for_next_level"
    /\ call.module = "core"
    /\ ret = NoneRet

\* the module's cache and open() count for the last loader call
CalledCache ==
    IF call.module = "core" THEN osrs_data_xp_table ELSE player_stats_xp_table

\* C13: in a sequential series of get_xp_table calls, once a call has loaded
\* the table, no later call opens the file again, the cached table never
\* changes, and every later call returns that same table, whatever the file
\* has become in between.
C13_LoadedTableIsNeverReopened ==
    [][osrs_data_xp_table.loaded
       => /\ opens'.core = opens.core
          /\ osrs_data_xp_table' = osrs_data_xp_table
          /\ (call' # call /\ call'.module = "core")
             => ret' = Ret(PyValue(osrs_data_xp_table))]_vars

\* a later get_xp_table call, made when the file has gone missing, that
\* returns the two-entry table loaded by the one and only open()
C13_Witness ==
    /\ call.fn = "get_xp_table"
    /\ ~call.first
    /\ call.resource.kind = "missing"
    /\ opens.core = 1
    /\ ret = Ret([type |-> "list", items |-> <<0, 1>>])

\* C14: when the file is missing, or its content is not a well-formed JSON
\* array of integers, the get_xp_table call that loads it returns an empty
\* sequence and does not raise.
C14_MissingOrMalformedGivesEmpty ==
    (/\ call.fn = "get_xp_table"
     /\ call.first
     /\ call.resource.kind # "array")
    => ret = Ret([type |-> "list", items |-> <<>>])

\* C15: over any sequence of calls of a table loader, the file is read at
\* most once in total, and a first load that fails on a missing file or on
\* undecodable JSON is cached as the empty table.
C15_ReadAtMostOnce ==
    /\ opens.core <= 1
    /\ opens.player_stats <= 1
    /\ (/\ call.fn # ""
        /\ call.first
        /\ call.resource.kind \in {"missing", "undecodable"})
       => /\ ret = Ret([type |-> "list", items |-> <<>>])
          /\ CalledCache = EmptyList

Range(seq) == {seq[i] : i \in DOMAIN seq}

TotalFns ==
    {"calculate_total_combat_xp", "calculate_total_non_combat_xp",
     "calculate_total_gathering_xp", "calculate_total_production_xp",
     "calculate_total_utility_xp"}

\* the skill names of the category a total function is documented to sum
CategoryOf(fn) ==
    CASE fn = "calculate_total_combat_xp" -> COMBAT_SKILLS
      [] fn = "calculate_total_non_combat_xp" -> NON_COMBAT_SKILLS
      [] fn = "calculate_total_gathering_xp" -> GATHERING_SKILLS
      [] fn = "calculate_total_production_xp" -> PRODUCTION_SKILLS
      [] fn = "calculate_total_utility_xp" -> UTILITY_SKILLS

\* max(xp, 0) of the first entry of the record named `name`; 0 when there is
\* no such entry or it has no xp field
FirstEntryXp(pd, name) ==
    LET skills == IF "skills" \in DOMAIN pd THEN pd.skills ELSE <<>>
        named == {i \in DOMAIN skills : skills[i].name = name}
    IN  IF named = {} THEN 0
        ELSE LET first == skills[CHOOSE i \in named : \A j \in named : i <= j]
             IN  IF "xp" \in DOMAIN first /\ first.xp > 0 THEN first.xp ELSE 0

RECURSIVE SumFirstEntryXp(_, _)
SumFirstEntryXp(pd, names) ==
    IF names = {} THEN 0
    ELSE LET n == CHOOSE n \in names : TRUE
         IN  FirstEntryXp(pd, n) + SumFirstEntryXp(pd, names \ {n})

\* C16: each category total (combat, non-combat, gathering, production,
\* utility) is the sum, over the category's fixed skill names, of max(xp, 0)
\* of the first entry of that name; a missing skill or a missing xp field
\* contributes 0, so the total is never negative and an unranked -1 never
\* lowers it.
C16_CategoryTotals ==
    call.fn \in TotalFns
    => /\ ret.kind = "value"
       /\ ret.val = SumFirstEntryXp(player_data, Range(CategoryOf(call.fn)))
       /\ ret.val >= 0

\* an unranked production skill and a gathering skill listed twice: the
\* non-combat total counts the first Farming entry only
C16_Witness ==
    /\ call.fn = "calculate_total_non_combat_xp"
    /\ player_data =
           [skills |-> <<[name |-> "Cooking", xp |-> -1],
                         [name |-> "Farming", xp |-> 2],
                         [name |-> "Farming", xp |-> 2]>>]
    /\ ret = Ret(2)

\* the sum of the entries of a list that are integers above 0
RECURSIVE SumAt(_, _)
SumAt(xs, idx) ==
    IF idx = {} THEN 0
    ELSE LET i == CHOOSE i \in idx : TRUE
         IN  xs[i].val + SumAt(xs, idx \ {i})

SumOfPositive(xs) ==
    SumAt(xs, {i \in DOMAIN xs : xs[i].kind = "value" /\ xs[i].val > 0})

\* the list of get_skill_xp results for a list of skill names
LookedUpXp(pd, skills) ==
    [i \in 1..Len(skills) |-> get_skill_xp(pd, skills[i])]

\* C17: calculate_total_xp(values) is the sum of exactly the entries that are
\* not None and strictly positive (0 for the empty list), and each category
\* total equals calculate_total_xp of the list of that category's looked-up
\* xp values.
C17_TotalXpSumsPositiveEntries ==
    /\ call.fn = "calculate_total_xp"
       => ret = Ret(SumOfPositive(call.xp_values))
    /\ call.fn \in TotalFns
       => ret = calculate_total_xp(LookedUpXp(player_data, CategoryOf(call.fn)))

\* a list with None, the unranked -1, and one positive entry
C17_Witness ==
    /\ call.fn = "calculate_total_xp"
    /\ call.xp_values = <<NoneRet, Ret(-1), Ret(2)>>
    /\ ret = Ret(2)

Disjoint(a, b) == Range(a) \cap Range(b) = {}

\* C18: COMBAT_SKILLS and NON_COMBAT_SKILLS are disjoint; GATHERING_SKILLS,
\* PRODUCTION_SKILLS and UTILITY_SKILLS are pairwise disjoint subsets of
\* NON_COMBAT_SKILLS; so the gathering, production and utility totals of a
\* record add up to at most its non-combat total, and to exactly it when the
\* three lists cover the non-combat list.
C18_SkillPartition ==
    /\ Disjoint(COMBAT_SKILLS, NON_COMBAT_SKILLS)
    /\ Disjoint(GATHERING_SKILLS, PRODUCTION_SKILLS)
    /\ Disjoint(GATHERING_SKILLS, UTILITY_SKILLS)
    /\ Disjoint(PRODUCTION_SKILLS, UTILITY_SKILLS)
    /\ Range(GATHERING_SKILLS) \cup Range(PRODUCTION_SKILLS)
           \cup Range(UTILITY_SKILLS) \subseteq Range(NON_COMBAT_SKILLS)
    /\ call.fn = "calculate_total_non_combat_xp"
       => LET parts == calculate_total_gathering_xp(player_data).val
                       + calculate_total_production_xp(player_data).val
                       + calculate_total_utility_xp(player_data).val
              covered == Range(gathering_skills) \cup Range(production_skills)
                         \cup Range(utility_skills) = Range(non_combat_skills)
          IN  /\ parts <= ret.val
              /\ covered => parts = ret.val

\* a non-combat total made of one skill of each subgroup
C18_Witness ==
    /\ call.fn = "calculate_total_non_combat_xp"
    /\ player_data =
           [skills |-> <<[name |-> "Farming", xp |-> 2],
                         [name |-> "Cooking", xp |-> 2],
                         [name |-> "Sailing", xp |-> 2]>>]
    /\ ret = Ret(6)

\* the orders the seven skills are evaluated in: every rotation of the
\* code's order, and its reverse
Rotate(seq, k) == [i \in 1..Len(seq) |-> seq[((i + k - 1) % Len(seq)) + 1]]

Reverse(seq) == [i \in 1..Len(seq) |-> seq[Len(seq) - i + 1]]

EvaluationOrders ==
    {Rotate(COMBAT_SKILLS, k) : k \in 0..(Len(COMBAT_SKILLS) - 1)}
    \cup {Reverse(COMBAT_SKILLS)}

\* C19: is_maxed_combat (both variants) returns True iff all seven combat
\* skill names are present and each has a level >= 99; a missing skill and a
\* level below 99 both give False; and evaluating the skills in another
\* order gives the same result.
C19_MaxedCombat ==
    call.fn = "is_maxed_combat"
    => /\ ret = Ret(\A skill \in CombatSkillNames :
                       /\ skill \in DOMAIN levels
                       /\ levels[skill] >= 99)
       /\ \A order \in EvaluationOrders :
              /\ call.module = "core"
                 => ret = Ret(is_maxed_combat_loop(levels, order))
              /\ call.module = "player_stats"
                 => ret = Ret(ps_is_maxed_combat_loop(player_data, order))

\* True for a record whose seven combat skills are all at 99 or above, one of
\* them above
C19_Witness ==
    /\ call.fn = "is_maxed_combat"
    /\ call.module = "player_stats"
    /\ DOMAIN levels = CombatSkillNames
    /\ levels["Magic"] = 100
    /\ ret = Ret(TRUE)

\* the level of the record's first "Overall" entry is MAX_TOTAL_LEVEL
OverallIsMax(pd) ==
    LET skills == IF "skills" \in DOMAIN pd THEN pd.skills ELSE <<>>
        named == {i \in DOMAIN skills : skills[i].name = "Overall"}
    IN  /\ named # {}
        /\ LET first == skills[CHOOSE i \in named : \A j \in named : i <= j]
           IN  "level" \in DOMAIN first /\ first.level = MAX_TOTAL_LEVEL

\* C20: is_maxed_total returns True iff the total level equals
\* MAX_TOTAL_LEVEL = 2376; None (in the full-record variant: a record with no
\* "Overall" entry) and every other integer give False.
C20_MaxedTotal ==
    /\ MAX_TOTAL_LEVEL = 2376
    /\ (call.fn = "is_maxed_total" /\ call.module = "core")
       => ret = Ret(call.total_level = Ret(2376))
    /\ (call.fn = "is_maxed_total" /\ call.module = "player_stats")
       => ret = Ret(OverallIsMax(player_data))

\* False for a record without an "Overall" entry
C20_Witness ==
    /\ call.fn = "is_maxed_total"
    /\ call.module = "player_stats"
    /\ player_data = [skills |-> <<[name |-> "Attack", level |-> 99]>>]
    /\ ret = Ret(FALSE)

\* the entry a lookup by name is to give: the one at the least index whose
\* 'name' is the requested name, None when there is none
FirstNamed(items, name) ==
    LET named == {i \in DOMAIN items :
                    "name" \in DOMAIN items[i] /\ items[i].name = name}
    IN  IF named = {} THEN NoneRet
        ELSE Ret(items[CHOOSE i \in named : \A j \in named : i <= j])

\* the list of the record a call reads
CalledItems(c, pd) ==
    IF c.fn \in {"get_activity_data", "get_activity_score", "get_activity_rank"}
    THEN ActivitiesOf(pd)
    ELSE SkillsOf(pd)

\* the field of an entry a getter reads
CalledField(c) ==
    CASE c.fn \in {"get_skill_level", "get_total_level"} -> "level"
      [] c.fn \in {"get_skill_xp", "get_overall_xp"} -> "xp"
      [] c.fn \in {"get_skill_rank", "get_overall_rank", "get_activity_rank"}
           -> "rank"
      [] c.fn = "get_activity_score" -> "score"
      [] OTHER -> ""

\* the entry a getter reads: the one it was given, or the one its name finds
CalledEntry(c, pd) ==
    IF c.module = "player_stats_getters" THEN Ret(c.entry)
    ELSE FirstNamed(CalledItems(c, pd), c.name)

\* C21: get_skill_data and get_activity_data return the first entry, in list
\* order, whose name is exactly the requested name (an earlier duplicate
\* wins, a name differing in case does not match), None when no entry
\* matches, the list is empty or the record has no 'skills' / 'activities'
\* key, and leave the record unchanged.
C21_LookupReturnsFirstNamed ==
    [][(call'.module = "hiscores_parser")
       => LET first == FirstNamed(CalledItems(call', player_data), call'.name)
          IN  /\ player_data' = player_data
              /\ ret'.kind = first.kind
              /\ first.kind = "value" => ret'.val = first.val]_vars

\* two different entries of the requested name: the earlier one is returned
C21_Witness ==
    /\ call.module = "hiscores_parser"
    /\ Len(CalledItems(call, player_data)) = 2
    /\ "name" \in DOMAIN CalledItems(call, player_data)[1]
    /\ "name" \in DOMAIN CalledItems(call, player_data)[2]
    /\ CalledItems(call, player_data)[1].name = call.name
    /\ CalledItems(call, player_data)[2].name = call.name
    /\ CalledItems(call, player_data)[1] # CalledItems(call, player_data)[2]
    /\ ret.kind = "value"
    /\ ret.val = CalledItems(call, player_data)[1]

\* C22: the level, xp, rank and score getters never raise, and return None
\* when the skill or activity is not in the record or the entry lacks the
\* requested field.
C22_AbsenceIsNone ==
    (call.module \in {"player_stats", "player_stats_getters"})
    => LET entry == CalledEntry(call, player_data)
       IN  /\ ret.kind # "raise"
           /\ (entry.kind = "None" \/ CalledField(call) \notin DOMAIN entry.val)
              => ret = NoneRet

\* the skill is in the record, its entry has no rank: None
C22_Witness ==
    /\ call.module = "player_stats"
    /\ call.fn = "get_skill_rank"
    /\ CalledEntry(call, player_data).kind = "value"
    /\ "rank" \notin DOMAIN CalledEntry(call, player_data).val
    /\ ret = NoneRet

\* C23: a rank, xp or score of -1 (unranked) or 0 in the entry is returned
\* as that integer, not as None.
C23_SentinelPreserved ==
    (/\ call.module \in {"player_stats", "player_stats_getters"}
     /\ CalledField(call) \in {"rank", "xp", "score"})
    => LET entry == CalledEntry(call, player_data)
       IN  (/\ entry.kind = "value"
            /\ CalledField(call) \in DOMAIN entry.val
            /\ entry.val[CalledField(call)] \in {-1, 0})
           => /\ ret = Ret(entry.val[CalledField(call)])
              /\ ret # NoneRet

\* an xp of 0 is returned as 0
C23_Witness ==
    /\ call.module = "player_stats"
    /\ call.fn = "get_skill_xp"
    /\ CalledEntry(call, player_data).kind = "value"
    /\ "xp" \in DOMAIN CalledEntry(call, player_data).val
    /\ CalledEntry(call, player_data).val.xp = 0
    /\ ret = Ret(0)

\* C24: every failure of fetch_hiscore is a HiscoreError: an unknown mode
\* gives HiscoreModeError and an unknown format HiscoreFormatError, both
\* before any HTTP request; a request exception, a non-OK status and an
\* unparsable JSON body give HiscoreHTTPError; a call makes at most one HTTP
\* request.
C24_FailuresAreHiscoreErrors ==
    (call.fn = "fetch_hiscore")
    => LET valid == call.mode \in DOMAIN BASE_URLS
                    /\ call.format \in {"json", "csv"}
           raises(e) == ret.kind = "raise" /\ ret.exc = e
       IN  /\ ret.kind \in {"value", "raise"}
           /\ ret.kind = "raise" => ret.exc \in HiscoreErrors
           /\ call.mode \notin DOMAIN BASE_URLS
              => raises("HiscoreModeError") /\ call.requests = <<>>
           /\ (call.mode \in DOMAIN BASE_URLS
               /\ call.format \notin {"json", "csv"})
              => raises("HiscoreFormatError") /\ call.requests = <<>>
           /\ (valid /\ call.net.kind = "exception")
              => raises("HiscoreHTTPError")
           /\ (valid /\ call.net.kind = "response"
               /\ call.net.status_code >= 400)
              => raises("HiscoreHTTPError")
           /\ (valid /\ call.net.kind = "response"
               /\ call.net.status_code < 400
               /\ call.format = "json" /\ ~call.net.json_ok)
              => raises("HiscoreHTTPError")
           /\ Len(call.requests) <= 1

\* a 200 response whose body is not JSON, requested once
C24_Witness ==
    /\ call.fn = "fetch_hiscore"
    /\ call.module = "osrs_hiscores_api"
    /\ call.format = "json"
    /\ call.net.kind = "response"
    /\ call.net.status_code = 200
    /\ ~call.net.json_ok
    /\ Len(call.requests) = 1
    /\ ret.kind = "raise"
    /\ ret.exc = "HiscoreHTTPError"

\* the handlers a call is to leave: a console handler, then a file handler
\* at INFO for the app log and one at DEBUG for the debug log, for the paths
\* that wanted(path) holds of
ExpectedHandlers(c, n, wanted(_)) ==
    <<Handler("StreamHandler", "sys.stdout", "INFO", n)>>
    \o (IF wanted(c.app_log_path)
        THEN <<Handler("FileHandler", c.app_log_path.path, "INFO", n)>>
        ELSE <<>>)
    \o (IF wanted(c.debug_log_path)
        THEN <<Handler("FileHandler", c.debug_log_path.path, "DEBUG", n)>>
        ELSE <<>>)

\* every handler was created by the latest call, there are at most three,
\* and every record was written by a handler of the call that was the latest
\* when it was logged
OnlyLatestHandlers ==
    /\ \A i \in DOMAIN handlers : handlers[i].setup = setups
    /\ Len(handlers) <= 3
    /\ \A f \in DOMAIN log_files :
           \A i \in DOMAIN log_files[f] :
               log_files[f][i].by = log_files[f][i].logged_after

given(p) == p.given

C26_ConcurrentCallersReadOnce ==
    /\ opens.core <= 1
    /\ opens.player_stats <= 1

\* a caller returns
Returns == \E c \in Callers : threads[c].pc = "return" /\ threads'[c].pc = "idle"

\* C27: in every interleaving of the loader's calls, with the file changing
\* between two racing reads or not, a cache that has been set is never
\* given different content, and every caller is returned the same content
\* as the callers before it.
C27_LoadedTableNeverChanges ==
    [][/\ osrs_data_xp_table.loaded
          => osrs_data_xp_table' = osrs_data_xp_table
       /\ player_stats_xp_table.loaded
          => player_stats_xp_table' = player_stats_xp_table
       /\ (Returns /\ ret.kind = "value") => ret' = ret]_vars

\* C28: for every strictly increasing table and every xp >= 0 whose level is
\* below the maximum level (the table length), r = get_xp_for_next_level(xp)
\* of core_player_calculators is strictly positive, xp + r is at the next
\* level and xp + r - 1 still at the current one.
C28_NextLevelShortfallIsExact ==
    (/\ call.fn = "get_xp_for_next_level"
     /\ call.module = "core"
     /\ CalledTable # <<>>
     /\ StrictlyIncreasing(CalledTable)
     /\ call.xp >= 0
     /\ get_level_for_xp(CalledTable, call.xp) < Len(CalledTable))
    => /\ ret.kind = "value"
       /\ ret.val > 0
       /\ get_level_for_xp(CalledTable, call.xp + ret.val)
            = get_level_for_xp(CalledTable, call.xp) + 1
       /\ get_level_for_xp(CalledTable, call.xp + ret.val - 1)
            = get_level_for_xp(CalledTable, call.xp)

\* C29: for every strictly increasing table, xp >= 0 and valid target L,
\* player_stats.get_xp_to_level(xp, L) is 0 exactly when get_level_for_xp(xp)
\* >= L, and otherwise xp plus the shortfall is at level L; and for
\* L = level + 1, with the level below the maximum, it equals
\* get_xp_for_next_level(xp).
C29_TargetShortfallMatchesLevel ==
    (/\ call.fn = "get_xp_to_level"
     /\ CalledTable # <<>>
     /\ StrictlyIncreasing(CalledTable)
     /\ call.xp >= 0
     /\ 1 < call.level
     /\ call.level <= Len(CalledTable))
    => LET level == ps_get_level_for_xp(CalledTable, call.xp)
       IN  /\ ret.kind = "value"
           /\ (ret.val = 0) <=> (level >= call.level)
           /\ ret.val # 0
              => ps_get_level_for_xp(CalledTable, call.xp + ret.val)
                   = call.level
           /\ (call.level = level + 1 /\ level < Len(CalledTable))
              => ret = ps_get_xp_for_next_level(CalledTable, call.xp)

\* a positive shortfall to the level after the current one, on a table of
\* three or more levels
C29_Witness ==
    /\ call.fn = "get_xp_to_level"
    /\ StrictlyIncreasing(CalledTable)
    /\ Len(CalledTable) >= 3
    /\ call.xp >= 0
    /\ call.level = ps_get_level_for_xp(CalledTable, call.xp) + 1
    /\ call.level <= Len(CalledTable)
    /\ ret.kind = "value"
    /\ ret.val > 1

\* C30: the two implementations of get_xp_for_next_level, the one bounding
\* by len(xp_table) and the one bounding by MAX_VIRTUAL_LEVEL, have the same
\* outcome for every xp and every loaded table.
C30_NextLevelImplementationsAgree ==
    (call.fn = "get_xp_for_next_level" /\ CalledTable # <<>>)
    => /\ ret = get_xp_for_next_level(CalledTable, call.xp)
       /\ ret = ps_get_xp_for_next_level(CalledTable, call.xp)

====
